---- MODULE Spec2Model ----
(***************************************************************************)
(* Biometric attendance backend (app.py, database.py, config.py).          *)
(*                                                                         *)
(* Flask serves requests on concurrent threads; every Firestore call       *)
(* (document get, set, update, query) is one atomic step of the store and  *)
(* may raise. database.py catches every exception and turns it into        *)
(* None / False / 'attendance'. A handler is therefore a sequence of       *)
(* steps, one per store call, with the local computation that follows the  *)
(* call folded into the step.                                              *)
(*                                                                         *)
(* Values:                                                                 *)
(*   time string "HH:MM:SS"            <<h, m, s>>                          *)
(*   date string "YYYY-MM-DD"          day number                          *)
(*   "H hours M minutes"               <<H, M>>                            *)
(*   teacher_id "teacher_<ts>_<fid>"   <<day, second of day, fid>>          *)
(*   attendance[date]                  function on a subset of             *)
(*                                     {"check_in","check_out",            *)
(*                                      "working_hours"}                   *)
(***************************************************************************)
EXTENDS Integers, Sequences, FiniteSets, TLC

VARIABLES now, teachers, modeDoc, latest, th, nreq, out, calc

vars == <<now, teachers, modeDoc, latest, th, nreq, out, calc>>

(***************************************************************************)
(* Bounds and program constants                                            *)
(***************************************************************************)
\* config.py: COOLDOWN_MINUTES = int(os.getenv("COOLDOWN_MINUTES", "15"))
COOLDOWN_MINUTES == 15

\* number of requests the model lets arrive while teachers are registered
MaxRequests == 4

\* number of requests the model lets arrive while attendance is taken
MaxEvents == 3

\* last civil day the model clock reaches (days are 0..MaxDay)
MaxDay == 1

\* number of requests the model lets arrive while request bodies are
\* validated
MaxInvalid == 3

\* largest minute count given to format_minutes_to_hours
MaxMinutes == 1500

\* requests that arrive while the mode is administered
MaxModeRequests == 4

\* attendance events of the two-person scenario
MaxTwoEvents == 4

\* largest second of the day at which a scan is decided (23:59:59)
MaxSecond == 86399

\* attendance events after a record without check_in was stored
MaxLateEvents == 3

Threads == {1, 2}

\* fingerprint identifiers the sensor can send
FPs == {1, 2}

\* (name, department) pairs a registration form can carry
Profiles == {<<"Ann", "CSE">>, <<"Bob", "EEE">>}

\* seconds of day the clock passes through while attendance is taken:
\* 00:10:00, 09:00:00, 09:10:00, 09:15:00, 23:50:00
AttPoints == {600, 32400, 33000, 33300, 85800}

\* seconds of day the clock passes through while teachers are registered:
\* 09:00:00, 09:15:00
RegPoints == {32400, 33300}

\* seconds of day the clock passes through on a working day:
\* 09:00:00, 09:10:00, 09:15:00, 17:30:00
DayPoints == {32400, 33000, 33300, 63000}

\* seconds of day in the two-person scenario: 09:00:00 and 09:15:00
TwoPoints == {32400, 33300}

\* times of day given to calculate_working_hours
CalcTimes ==
    {<<0, 0, 0>>, <<0, 10, 0>>, <<9, 0, 0>>, <<9, 0, 30>>, <<9, 15, 29>>,
     <<17, 30, 0>>, <<23, 50, 0>>, <<23, 59, 59>>}

Days == 0..MaxDay

NoTime == <<>>
NoId == <<>>
NoRec == << >>
NoDate == 0 - 1

(***************************************************************************)
(* Clock and string conversions                                            *)
(***************************************************************************)
\* datetime.now(BD_TIMEZONE).strftime("%H:%M:%S")
get_time_string == <<now.sec \div 3600, (now.sec % 3600) \div 60, now.sec % 60>>

\* datetime.now(BD_TIMEZONE).strftime("%Y-%m-%d")
get_date_string == now.day

\* datetime.combine(today, datetime.strptime(s, "%H:%M:%S").time()), as the
\* number of seconds since the start of `today`
ParseTime(s) == s[1] * 3600 + s[2] * 60 + s[3]

\* a faulty difference, against which C34_Remaining is tested: no day is
\* added when the later time of day is the smaller one
DiffSecondsSameDay(check_in, later) == ParseTime(later) - ParseTime(check_in)

\* seconds between check-in and the later time, the later one moved to the
\* next day when it is before the check-in
DiffSeconds(check_in, later) ==
    LET a == ParseTime(check_in)
        b == ParseTime(later)
    IN  IF b < a THEN b + 86400 - a ELSE b - a

\* a faulty minutes_passed, against which C24_Boundary is tested: the
\* minutes are rounded to the nearest minute
MinutesRounded(check_in, current_time) ==
    (DiffSeconds(check_in, current_time) + 30) \div 60

\* app.py attendance(): minutes_passed = int(time_diff.total_seconds() / 60)
MinutesPassed(check_in, current_time) == DiffSeconds(check_in, current_time) \div 60

\* app.py calculate_working_hours
calculate_working_hours(check_in_time, check_out_time) ==
    LET total_seconds == DiffSeconds(check_in_time, check_out_time)
    IN  <<total_seconds \div 3600, (total_seconds % 3600) \div 60>>

\* app.py format_minutes_to_hours: the two numbers of the f-string
format_minutes_to_hours(minutes) == <<minutes \div 60, minutes % 60>>

\* Strings are sequences of one-character strings.
DigitChars == <<"0", "1", "2", "3", "4", "5", "6", "7", "8", "9">>

IsDigit(c) == \E d \in 1..10 : DigitChars[d] = c

DigitValue(c) == (CHOOSE d \in 1..10 : DigitChars[d] = c) - 1

\* str(n) of a non-negative integer, as an f-string prints it
RECURSIVE Decimal(_)
Decimal(n) ==
    IF n < 10 THEN <<DigitChars[n + 1]>>
    ELSE Decimal(n \div 10) \o <<DigitChars[(n % 10) + 1]>>

\* int(digits)
RECURSIVE IntOf(_)
IntOf(digits) ==
    IF digits = <<>> THEN 0
    ELSE IntOf(SubSeq(digits, 1, Len(digits) - 1)) * 10
            + DigitValue(digits[Len(digits)])

\* f"{hours} hours {minutes} minutes", the text that calculate_working_hours
\* and format_minutes_to_hours return, of the pair <<hours, minutes>>
WorkingHoursText(wh) ==
    Decimal(wh[1]) \o <<" ", "h", "o", "u", "r", "s", " ">>
        \o Decimal(wh[2]) \o <<" ", "m", "i", "n", "u", "t", "e", "s">>

\* first index from i on at which s has no digit (greedy \d+)
RECURSIVE DigitsEnd(_, _)
DigitsEnd(s, i) ==
    IF i <= Len(s) /\ IsDigit(s[i]) THEN DigitsEnd(s, i + 1) ELSE i

\* first index from i on at which s has no blank (greedy \s*)
RECURSIVE BlanksEnd(_, _)
BlanksEnd(s, i) ==
    IF i <= Len(s) /\ s[i] = " " THEN BlanksEnd(s, i + 1) ELSE i

\* `word` stands in s at index k
WordAt(s, k, word) ==
    /\ k + Len(word) - 1 <= Len(s)
    /\ SubSeq(s, k, k + Len(word) - 1) = word

\* (\d+)\s*word matches s at index i
MatchAt(s, i, word) ==
    /\ i <= Len(s)
    /\ IsDigit(s[i])
    /\ WordAt(s, BlanksEnd(s, DigitsEnd(s, i)), word)

\* re.search(r'(\d+)\s*word', s): int(group(1)) of the leftmost match, 0
\* when there is none
SearchNumber(s, word) ==
    IF \E i \in 1..Len(s) : MatchAt(s, i, word)
    THEN LET i == CHOOSE k \in 1..Len(s) :
                     /\ MatchAt(s, k, word)
                     /\ \A j \in 1..(k - 1) : ~MatchAt(s, j, word)
         IN  IntOf(SubSeq(s, i, DigitsEnd(s, i) - 1))
    ELSE 0

\* a faulty parse_working_hours_to_minutes, against which C13_RoundTrip is
\* tested: both patterns lack their unit, r'(\d+)'
parse_without_units(working_hours_str) ==
    IF working_hours_str = <<>> THEN 0
    ELSE SearchNumber(working_hours_str, <<>>) * 60
            + SearchNumber(working_hours_str, <<>>)

\* app.py parse_working_hours_to_minutes, of the text of a working duration
parse_working_hours_to_minutes(working_hours_str) ==
    IF working_hours_str = <<>> THEN 0
    ELSE SearchNumber(working_hours_str, <<"h", "o", "u", "r">>) * 60
            + SearchNumber(working_hours_str, <<"m", "i", "n", "u", "t", "e">>)

(***************************************************************************)
(* Requests                                                                *)
(***************************************************************************)
\* a fingerprint_id field of a request body: an integer, absent, or a
\* string that int() rejects
IntFp(n) == [tag |-> "int", val |-> n]
NoneFp == [tag |-> "none", val |-> 0]
BadFp == [tag |-> "str", val |-> 0]

\* `kind` is the body of the request: "json" (a JSON object), "json_other"
\* (JSON that is no object: data.get raises AttributeError) or "form"
Req(op, kind, name, department, fp, mode) ==
    [op |-> op, kind |-> kind, name |-> name, department |-> department,
     fp |-> fp, mode |-> mode]

SetMode(m) == Req("set_mode", "json", "", "", NoneFp, m)
GetMode == Req("get_mode", "json", "", "", NoneFp, "")
Attendance(fp) == Req("attendance", "json", "", "", fp, "")
Register(p, fp) == Req("register", "json", p[1], p[2], fp, "")
RegisterFingerprint(fp) == Req("register_fingerprint", "json", "", "", fp, "")

\* requests while teachers are registered
RegRequests ==
    {SetMode(m) : m \in {"register", "attendance"}}
    \cup {Register(p, IntFp(n)) : p \in Profiles, n \in FPs}
    \cup {RegisterFingerprint(IntFp(n)) : n \in FPs}
    \cup {Attendance(IntFp(1)),
          Req("get_latest_fingerprint", "json", "", "", NoneFp, ""),
          Req("clear_latest_fingerprint", "json", "", "", NoneFp, "")}

\* requests while attendance is taken
AttRequests ==
    {SetMode(m) : m \in {"register", "attendance"}}
    \cup {Attendance(fp) : fp \in {IntFp(n) : n \in FPs} \cup {BadFp}}

\* an attendance request whose body is JSON but no object (e.g. [])
AttendanceNoObject == Req("attendance", "json_other", "", "", NoneFp, "")

\* requests of a working day: those above and the body that is no object
DayRequests == AttRequests \cup {AttendanceNoObject}

\* requests whose bodies the handlers validate: attendance without JSON or
\* without fingerprint_id, registrations with fields missing or with a
\* fingerprint_id that is no integer, and one complete registration form
ValRequests ==
    {SetMode(m) : m \in {"register", "attendance"}}
    \cup {Req("attendance", "form", "", "", NoneFp, ""),
          Attendance(NoneFp),
          AttendanceNoObject}
    \cup {Req("register", "json", "", "CSE", IntFp(1), ""),
          Req("register", "json", "Ann", "", IntFp(1), ""),
          Req("register", "json", "Ann", "CSE", NoneFp, ""),
          Req("register", "json", "Ann", "CSE", BadFp, ""),
          Req("register", "json_other", "", "", NoneFp, ""),
          Req("register", "form", "", "", NoneFp, ""),
          Req("register", "form", "", "CSE", BadFp, ""),
          Req("register", "form", "Ann", "CSE", BadFp, ""),
          Req("register", "form", "Ann", "CSE", IntFp(1), "")}

\* values of 'mode' in the set-mode requests of the mode scenario
ModeValues == {"register", "attendance", "REGISTER", "maintenance"}

\* str.lower(), on the values of ModeValues
lower(mode) == IF mode = "REGISTER" THEN "register" ELSE mode

\* requests while the mode is administered: set-mode with valid and invalid
\* values, the mode query, one registration and one attendance event
ModeRequests ==
    {SetMode(m) : m \in ModeValues}
    \cup {GetMode, Attendance(IntFp(1)), Register(<<"Ann", "CSE">>, IntFp(1))}

NoReq == Req("", "", "", "", NoneFp, "")

(***************************************************************************)
(* Responses                                                               *)
(***************************************************************************)
Resp(code, status, outcome) ==
    [code |-> code, status |-> status, outcome |-> outcome,
     remaining |-> 0, mode |-> "", fp |-> 0]

NoResp == Resp(0, "", "")

\* keys that every response of attendance() carries
CommonKeys == {"status", "message", "server_time"}

\* a faulty attendance(), against which C20_Response is tested: the
\* validation errors are built as register() builds them, without
\* server_time
AttendanceKeysAsRegister(outcome) ==
    CASE outcome \in {"mode_conflict"} -> CommonKeys
      [] outcome \in {"validation_error"} -> {"status", "message"}
      [] outcome \in {"internal_error"} -> CommonKeys \cup {"action"}
      [] outcome \in {"cooldown_rejected"} ->
             CommonKeys \cup {"action", "teacher", "remaining_minutes"}
      [] OTHER -> CommonKeys \cup {"action", "teacher"}

\* app.py attendance(): the keys of the JSON object of each return
AttendanceKeys(outcome) ==
    CASE outcome \in {"mode_conflict", "validation_error"} -> CommonKeys
      [] outcome \in {"internal_error"} -> CommonKeys \cup {"action"}
      [] outcome \in {"cooldown_rejected"} ->
             CommonKeys \cup {"action", "teacher", "remaining_minutes"}
      [] OTHER -> CommonKeys \cup {"action", "teacher"}

\* `out` before any response was sent
NoOut == [op |-> "", resp |-> NoResp]

(***************************************************************************)
(* Request threads                                                         *)
(***************************************************************************)
NoToday == [present |-> FALSE, rec |-> NoRec]

\* a thread that serves no request
Idle ==
    [pc |-> "idle", req |-> NoReq, time |-> NoTime, date |-> NoDate,
     mode |-> "", tid |-> NoId, today |-> NoToday, att |-> NoRec,
     wh |-> NoTime, resp |-> NoResp]

\* the handler returns `resp`
Return(r, resp) == [r EXCEPT !.pc = "return", !.resp = resp]

(***************************************************************************)
(* Store reads                                                             *)
(***************************************************************************)
\* the teacher documents whose fingerprint_id field is fid
WithFingerprint(fid) == {id \in DOMAIN teachers : teachers[id].fingerprint_id = fid}

\* teacher ids in document-name order ("teacher_<timestamp>_<fid>")
IdBefore(a, b) ==
    \/ a[1] < b[1]
    \/ a[1] = b[1] /\ a[2] < b[2]
    \/ a[1] = b[1] /\ a[2] = b[2] /\ a[3] <= b[3]

\* a faulty lookup, against which C8_NotFound is tested: the query drops
\* its where clause and returns a teacher whenever the collection has one
get_teacher_without_where(fid, ok) ==
    IF ok /\ DOMAIN teachers # {}
    THEN CHOOSE id \in DOMAIN teachers :
            \A other \in DOMAIN teachers : IdBefore(id, other)
    ELSE NoId

\* database.get_teacher_by_fingerprint_id: where(...).limit(1), None when
\* the query raises or matches nothing
get_teacher_by_fingerprint_id(fid, ok) ==
    IF ok /\ WithFingerprint(fid) # {}
    THEN CHOOSE id \in WithFingerprint(fid) :
            \A other \in WithFingerprint(fid) : IdBefore(id, other)
    ELSE NoId

\* database.get_today_attendance: None when the read raises, the document
\* is missing or the date has no entry
get_today_attendance(teacher_id, date, ok) ==
    IF ok /\ teacher_id \in DOMAIN teachers
          /\ date \in DOMAIN teachers[teacher_id].attendance
    THEN [present |-> TRUE, rec |-> teachers[teacher_id].attendance[date]]
    ELSE NoToday

(***************************************************************************)
(* Local computation of the handlers                                       *)
(***************************************************************************)
Has(rec, key) == key \in DOMAIN rec

\* dict.get(key) is truthy
Truthy(rec, key) == Has(rec, key)

\* app.py attendance(), after database.get_system_mode(): the mode gate and
\* the validation of the request body
AttendanceGate(r, current_mode) ==
    IF current_mode # "attendance"
    THEN Return(r, [Resp(403, "error", "mode_conflict") EXCEPT !.mode = current_mode])
    ELSE IF r.req.kind = "form"
    THEN Return(r, Resp(400, "error", "validation_error"))
    ELSE IF r.req.kind = "json_other"
    THEN \* data.get raises AttributeError, caught by the outer except
         Return(r, Resp(500, "error", "internal_error"))
    ELSE IF r.req.fp.tag # "int"
    THEN Return(r, Resp(400, "error", "validation_error"))
    ELSE [r EXCEPT !.pc = "att_lookup"]

\* a faulty register(), against which C7_ModeGate is tested: the mode gate
\* is missing
RegisterWithoutGate(r, current_mode) ==
    IF r.req.name = "" \/ r.req.department = "" \/ r.req.fp.tag # "int"
    THEN Return(r, Resp(400, "error", "validation_error"))
    ELSE [r EXCEPT !.pc = "reg_lookup"]

\* app.py register(), after database.get_system_mode(): the mode gate,
\* the decoding of the body and the validation of the three fields
RegisterGate(r, current_mode) ==
    IF current_mode # "register"
    THEN Return(r, [Resp(403, "error", "mode_conflict") EXCEPT !.mode = current_mode])
    ELSE IF r.req.kind = "json_other"
    THEN \* data.get raises AttributeError, caught by the outer except
         Return(r, Resp(500, "error", "internal_error"))
    ELSE IF r.req.kind = "form" /\ r.req.fp.tag = "str"
    THEN \* int(fingerprint_id_str) raises ValueError outside the inner try
         Return(r, Resp(500, "error", "internal_error"))
    ELSE IF r.req.name = "" \/ r.req.department = "" \/ r.req.fp.tag = "none"
    THEN Return(r, Resp(400, "error", "validation_error"))
    ELSE IF r.req.fp.tag # "int"
    THEN Return(r, Resp(400, "error", "validation_error"))
    ELSE [r EXCEPT !.pc = "reg_lookup"]

\* app.py register_fingerprint(), after database.get_system_mode()
FingerprintGate(r, current_mode) ==
    IF current_mode # "register"
    THEN Return(r, [Resp(403, "error", "mode_conflict") EXCEPT !.mode = current_mode])
    ELSE IF r.req.kind = "form"
    THEN Return(r, Resp(400, "error", "validation_error"))
    ELSE IF r.req.kind = "json_other"
    THEN \* data.get raises AttributeError, caught by the outer except
         Return(r, Resp(500, "error", "internal_error"))
    ELSE IF r.req.fp.tag # "int"
    THEN Return(r, Resp(400, "error", "validation_error"))
    ELSE [r EXCEPT !.pc = "rf_lookup"]

\* what each handler does with the value database.get_system_mode() returned
AfterMode(r0, current_mode) ==
    LET r == [r0 EXCEPT !.mode = current_mode]
    IN  CASE r.req.op = "attendance" -> AttendanceGate(r, current_mode)
          [] r.req.op = "register" -> RegisterGate(r, current_mode)
          [] r.req.op = "register_fingerprint" -> FingerprintGate(r, current_mode)
          [] OTHER -> Return(r, [Resp(200, "success", "mode")
                                    EXCEPT !.mode = current_mode])

\* a faulty decision, against which C32_Decision is tested: a record with a
\* check_out counts as completed whether or not it has a check_in
DecideCompletedFirst(r, today_attendance) ==
    LET rec == today_attendance.rec
        r1 == [r EXCEPT !.today = today_attendance]
    IN  IF ~today_attendance.present \/ DOMAIN rec = {}
        THEN [r1 EXCEPT !.pc = "ci_get"]
        ELSE IF Truthy(rec, "check_out")
        THEN Return(r1, Resp(400, "error", "already_completed"))
        ELSE IF Truthy(rec, "check_in")
        THEN LET minutes_passed == MinutesPassed(rec.check_in, r.time)
             IN  IF minutes_passed < COOLDOWN_MINUTES
                 THEN Return(r1, [Resp(400, "error", "cooldown_rejected")
                                     EXCEPT !.remaining = COOLDOWN_MINUTES - minutes_passed])
                 ELSE [r1 EXCEPT !.pc = "co_get",
                                 !.wh = calculate_working_hours(rec.check_in, r.time)]
        ELSE Return(r1, Resp(500, "error", "invalid_state"))

\* app.py attendance(): the decision on today's record (cases 1 to 4)
Decide(r, today_attendance) ==
    LET rec == today_attendance.rec
        r1 == [r EXCEPT !.today = today_attendance]
    IN  IF ~today_attendance.present \/ DOMAIN rec = {}
        THEN [r1 EXCEPT !.pc = "ci_get"]
        ELSE IF Truthy(rec, "check_in") /\ ~Truthy(rec, "check_out")
        THEN LET minutes_passed == MinutesPassed(rec.check_in, r.time)
             IN  IF minutes_passed < COOLDOWN_MINUTES
                 THEN Return(r1, [Resp(400, "error", "cooldown_rejected")
                                     EXCEPT !.remaining = COOLDOWN_MINUTES - minutes_passed])
                 ELSE [r1 EXCEPT !.pc = "co_get",
                                 !.wh = calculate_working_hours(rec.check_in, r.time)]
        ELSE IF Truthy(rec, "check_in") /\ Truthy(rec, "check_out")
        THEN Return(r1, Resp(400, "error", "already_completed"))
        ELSE Return(r1, Resp(500, "error", "invalid_state"))

\* a faulty create_check_in, against which C1_CheckIn is tested: the new
\* record is stamped with a check_out as well
CheckInMapWithCheckOut(attendance, date, time) ==
    [d \in DOMAIN attendance \cup {date} |->
        IF d = date THEN [k \in {"check_in", "check_out"} |-> time]
        ELSE attendance[d]]

\* database.create_check_in: attendance[date_str] = {'check_in': time_str}
CheckInMap(attendance, date, time) ==
    [d \in DOMAIN attendance \cup {date} |->
        IF d = date THEN [k \in {"check_in"} |-> time] ELSE attendance[d]]

\* database.create_check_out: attendance[date_str].update({'check_out': ...,
\* 'working_hours': ...}), on an empty dict when the date has no entry
CheckOutMap(attendance, date, time, working_hours) ==
    LET old == IF date \in DOMAIN attendance THEN attendance[date] ELSE NoRec
        new == [k \in DOMAIN old \cup {"check_out", "working_hours"} |->
                   IF k = "check_out" THEN time
                   ELSE IF k = "working_hours" THEN working_hours
                   ELSE old[k]]
    IN  [d \in DOMAIN attendance \cup {date} |->
            IF d = date THEN new ELSE attendance[d]]

\* app.py register(): teacher_id = f"teacher_{now:%Y%m%d%H%M%S}_{fingerprint_id}"
TeacherId(fid) == <<now.day, now.sec, fid>>

\* database.register_teacher: the document written by teacher_ref.set
TeacherData(name, department, fid) ==
    [name |-> name, department |-> department, fingerprint_id |-> fid,
     attendance |-> NoRec]

(***************************************************************************)
(* Initial state: empty store, no mode document, empty hand-off slot       *)
(***************************************************************************)
NoSlot == [set |-> FALSE, fingerprint_id |-> 0]

\* `calc` holds one evaluation of the working-duration functions: the
\* argument, the text returned and the minutes parsed back from the text.
\* It is not used while requests are served.
NoCalc ==
    [pc |-> "off", kind |-> "", minutes |-> 0, check_in |-> NoTime,
     check_out |-> NoTime, text |-> <<>>, parsed |-> 0]

Init ==
    /\ now = [day |-> 0, sec |-> 32400]
    /\ teachers = << >>
    /\ modeDoc = "absent"
    /\ latest = NoSlot
    /\ th = [t \in Threads |-> Idle]
    /\ nreq = 0
    /\ out = NoOut
    /\ calc = NoCalc

\* the thread's next state; a returning handler sends its response (`out`
\* is the last response sent) and leaves the thread free
Set(t, r) ==
    IF r.pc = "return"
    THEN /\ th' = [th EXCEPT ![t] = Idle]
         /\ out' = [op |-> r.req.op, resp |-> r.resp]
    ELSE /\ th' = [th EXCEPT ![t] = r]
         /\ UNCHANGED out

(***************************************************************************)
(* Clock                                                                   *)
(***************************************************************************)
Instants(points) == {[day |-> d, sec |-> s] : d \in Days, s \in points}

Before(a, b) == a.day < b.day \/ (a.day = b.day /\ a.sec < b.sec)

\* the clock moves to the next of the instants the model distinguishes
Tick(points) ==
    /\ \E i \in Instants(points) :
          /\ Before(now, i)
          /\ \A j \in Instants(points) : Before(now, j) => (j = i \/ Before(i, j))
          /\ now' = i
    /\ UNCHANGED <<teachers, modeDoc, latest, th, nreq, out, calc>>

(***************************************************************************)
(* Arrival of a request: it is served by the first free thread, and the    *)
(* handler runs up to its first store call                                 *)
(***************************************************************************)
Start(t, req) ==
    /\ th[t].pc = "idle"
    /\ \A u \in Threads : u < t => th[u].pc # "idle"
    /\ nreq' = nreq + 1
    /\ LET r == [Idle EXCEPT !.req = req]
       IN  CASE req.op = "attendance" ->
                  \* current_time = get_time_string()
                  /\ Set(t, [r EXCEPT !.pc = "att_date", !.time = get_time_string])
                  /\ UNCHANGED latest
             [] req.op \in {"register", "register_fingerprint", "get_mode"} ->
                  /\ Set(t, [r EXCEPT !.pc = "mode_read"])
                  /\ UNCHANGED latest
             [] req.op = "set_mode" ->
                  /\ Set(t, IF req.kind = "json_other"
                            THEN Return(r, Resp(500, "error", "internal_error"))
                            ELSE IF req.kind = "form"
                                    \/ lower(req.mode) \notin {"register", "attendance"}
                            THEN Return(r, Resp(400, "error", "validation_error"))
                            ELSE [r EXCEPT !.pc = "mode_write"])
                  /\ UNCHANGED latest
             [] req.op = "get_latest_fingerprint" ->
                  \* if _latest_fingerprint_id is None
                  /\ Set(t, IF latest.set
                            THEN [r EXCEPT !.pc = "latest_read"]
                            ELSE Return(r, Resp(200, "waiting", "waiting")))
                  /\ UNCHANGED latest
             [] req.op = "clear_latest_fingerprint" ->
                  /\ latest' = NoSlot
                  /\ Set(t, Return(r, Resp(200, "success", "cleared")))
    /\ UNCHANGED <<now, teachers, modeDoc, calc>>

(***************************************************************************)
(* attendance(): current_date = get_date_string()                          *)
(***************************************************************************)
AttDate(t) ==
    /\ th[t].pc = "att_date"
    /\ Set(t, [th[t] EXCEPT !.pc = "mode_read", !.date = get_date_string])
    /\ UNCHANGED <<now, teachers, modeDoc, latest, nreq, calc>>

(***************************************************************************)
(* database.get_system_mode / set_system_mode                              *)
(***************************************************************************)
\* a faulty get_system_mode, against which C38_FailedRead is tested: a read
\* that raises gives 'register'
ModeReadRegisterOnError(t, ok) ==
    /\ th[t].pc = "mode_read"
    /\ Set(t, IF ~ok THEN AfterMode(th[t], "register")
              ELSE IF modeDoc = "absent" THEN [th[t] EXCEPT !.pc = "mode_default"]
              ELSE AfterMode(th[t], modeDoc))
    /\ UNCHANGED <<now, teachers, modeDoc, latest, nreq, calc>>

\* system_ref.get(): the stored mode, 'attendance' when the read raises;
\* a missing document leads to set_system_mode('attendance')
ModeRead(t, ok) ==
    /\ th[t].pc = "mode_read"
    /\ Set(t, IF ~ok THEN AfterMode(th[t], "attendance")
              ELSE IF modeDoc = "absent" THEN [th[t] EXCEPT !.pc = "mode_default"]
              ELSE AfterMode(th[t], modeDoc))
    /\ UNCHANGED <<now, teachers, modeDoc, latest, nreq, calc>>

\* a faulty get_system_mode, against which C21_DefaultMode is tested: the
\* mode of a store without mode document is 'register'
ModeDefaultRegister(t, ok) ==
    /\ th[t].pc = "mode_default"
    /\ modeDoc' = IF ok THEN "register" ELSE modeDoc
    /\ Set(t, AfterMode(th[t], "register"))
    /\ UNCHANGED <<now, teachers, latest, nreq, calc>>

\* get_system_mode: set_system_mode('attendance'); return 'attendance'
ModeDefault(t, ok) ==
    /\ th[t].pc = "mode_default"
    /\ modeDoc' = IF ok THEN "attendance" ELSE modeDoc
    /\ Set(t, AfterMode(th[t], "attendance"))
    /\ UNCHANGED <<now, teachers, latest, nreq, calc>>

\* app.py set_mode(): database.set_system_mode(mode)
ModeWrite(t, ok) ==
    /\ th[t].pc = "mode_write"
    /\ modeDoc' = IF ok THEN lower(th[t].req.mode) ELSE modeDoc
    /\ Set(t, Return(th[t], IF ok
                            THEN [Resp(200, "success", "mode_set")
                                     EXCEPT !.mode = lower(th[t].req.mode)]
                            ELSE Resp(500, "error", "storage_error")))
    /\ UNCHANGED <<now, teachers, latest, nreq, calc>>

(***************************************************************************)
(* database.get_teacher_by_fingerprint_id, called by attendance(),         *)
(* register() and register_fingerprint()                                   *)
(***************************************************************************)
Lookup(t, ok) ==
    /\ th[t].pc \in {"att_lookup", "reg_lookup", "rf_lookup"}
    /\ LET r == th[t]
           teacher == get_teacher_by_fingerprint_id(r.req.fp.val, ok)
       IN  Set(t, CASE r.pc = "att_lookup" ->
                         IF teacher = NoId
                         THEN Return(r, Resp(404, "error", "not_found"))
                         ELSE [r EXCEPT !.pc = "att_today", !.tid = teacher]
                    [] r.pc = "reg_lookup" ->
                         IF teacher # NoId
                         THEN Return(r, Resp(400, "error", "duplicate"))
                         ELSE [r EXCEPT !.pc = "reg_set"]
                    [] r.pc = "rf_lookup" ->
                         IF teacher # NoId
                         THEN Return(r, Resp(400, "error", "duplicate"))
                         ELSE [r EXCEPT !.pc = "rf_store"])
    /\ UNCHANGED <<now, teachers, modeDoc, latest, nreq, calc>>

(***************************************************************************)
(* attendance(): database.get_today_attendance and the decision            *)
(***************************************************************************)
TodayRead(t, ok) ==
    /\ th[t].pc = "att_today"
    /\ Set(t, Decide(th[t], get_today_attendance(th[t].tid, th[t].date, ok)))
    /\ UNCHANGED <<now, teachers, modeDoc, latest, nreq, calc>>

(***************************************************************************)
(* database.create_check_in: teacher_ref.get(), then teacher_ref.update    *)
(***************************************************************************)
CheckInGet(t, ok) ==
    /\ th[t].pc = "ci_get"
    /\ LET r == th[t]
       IN  Set(t, IF ok /\ r.tid \in DOMAIN teachers
                  THEN [r EXCEPT !.pc = "ci_update",
                                 !.att = CheckInMap(teachers[r.tid].attendance,
                                                    r.date, r.time)]
                  ELSE Return(r, Resp(500, "error", "storage_error")))
    /\ UNCHANGED <<now, teachers, modeDoc, latest, nreq, calc>>

\* a faulty write of a check-in, against which C15_FailedWrite is tested:
\* the update is applied although the call raises
CheckInUpdateAppliedOnFailure(t, ok) ==
    /\ th[t].pc = "ci_update"
    /\ LET r == th[t]
       IN  /\ teachers' = [teachers EXCEPT ![r.tid].attendance = r.att]
           /\ Set(t, IF ok THEN Return(r, Resp(200, "success", "check_in"))
                      ELSE Return(r, Resp(500, "error", "storage_error")))
    /\ UNCHANGED <<now, modeDoc, latest, nreq, calc>>

CheckInUpdate(t, ok) ==
    /\ th[t].pc = "ci_update"
    /\ LET r == th[t]
       IN  IF ok /\ r.tid \in DOMAIN teachers
           THEN /\ teachers' = [teachers EXCEPT ![r.tid].attendance = r.att]
                /\ Set(t, Return(r, Resp(200, "success", "check_in")))
           ELSE /\ UNCHANGED teachers
                /\ Set(t, Return(r, Resp(500, "error", "storage_error")))
    /\ UNCHANGED <<now, modeDoc, latest, nreq, calc>>

(***************************************************************************)
(* database.create_check_out: teacher_ref.get(), then teacher_ref.update   *)
(***************************************************************************)
CheckOutGet(t, ok) ==
    /\ th[t].pc = "co_get"
    /\ LET r == th[t]
       IN  Set(t, IF ok /\ r.tid \in DOMAIN teachers
                  THEN [r EXCEPT !.pc = "co_update",
                                 !.att = CheckOutMap(teachers[r.tid].attendance,
                                                     r.date, r.time, r.wh)]
                  ELSE Return(r, Resp(500, "error", "storage_error")))
    /\ UNCHANGED <<now, teachers, modeDoc, latest, nreq, calc>>

\* a faulty write of a check-out, against which C23_Isolation is tested:
\* the map is written to every teacher document
CheckOutUpdateAll(t, ok) ==
    /\ th[t].pc = "co_update"
    /\ LET r == th[t]
       IN  IF ok /\ r.tid \in DOMAIN teachers
           THEN /\ teachers' = [id \in DOMAIN teachers |->
                                   [teachers[id] EXCEPT !.attendance = r.att]]
                /\ Set(t, Return(r, Resp(200, "success", "check_out")))
           ELSE /\ UNCHANGED teachers
                /\ Set(t, Return(r, Resp(500, "error", "storage_error")))
    /\ UNCHANGED <<now, modeDoc, latest, nreq, calc>>

CheckOutUpdate(t, ok) ==
    /\ th[t].pc = "co_update"
    /\ LET r == th[t]
       IN  IF ok /\ r.tid \in DOMAIN teachers
           THEN /\ teachers' = [teachers EXCEPT ![r.tid].attendance = r.att]
                /\ Set(t, Return(r, Resp(200, "success", "check_out")))
           ELSE /\ UNCHANGED teachers
                /\ Set(t, Return(r, Resp(500, "error", "storage_error")))
    /\ UNCHANGED <<now, modeDoc, latest, nreq, calc>>

(***************************************************************************)
(* register(): teacher id, database.register_teacher, slot cleared         *)
(***************************************************************************)
Put(f, key, value) ==
    [k \in DOMAIN f \cup {key} |-> IF k = key THEN value ELSE f[k]]

RegisterSet(t, ok) ==
    /\ th[t].pc = "reg_set"
    /\ LET r == th[t]
           teacher_id == TeacherId(r.req.fp.val)
       IN  IF ok
           THEN /\ teachers' = Put(teachers, teacher_id,
                                   TeacherData(r.req.name, r.req.department,
                                               r.req.fp.val))
                /\ latest' = NoSlot
                /\ Set(t, Return([r EXCEPT !.tid = teacher_id],
                                 Resp(201, "success", "registered")))
           ELSE /\ UNCHANGED <<teachers, latest>>
                /\ Set(t, Return(r, Resp(500, "error", "storage_error")))
    /\ UNCHANGED <<now, modeDoc, nreq, calc>>

(***************************************************************************)
(* register_fingerprint(): _latest_fingerprint_id = {...}                  *)
(***************************************************************************)
FingerprintStoreIfEmpty(t) ==
    /\ th[t].pc = "rf_store"
    /\ latest' = IF latest.set THEN latest
                 ELSE [set |-> TRUE, fingerprint_id |-> th[t].req.fp.val]
    /\ Set(t, Return(th[t], [Resp(200, "success", "fingerprint_stored")
                                EXCEPT !.fp = th[t].req.fp.val]))
    /\ UNCHANGED <<now, teachers, modeDoc, nreq, calc>>

FingerprintStore(t) ==
    /\ th[t].pc = "rf_store"
    /\ latest' = [set |-> TRUE, fingerprint_id |-> th[t].req.fp.val]
    /\ Set(t, Return(th[t], [Resp(200, "success", "fingerprint_stored")
                                EXCEPT !.fp = th[t].req.fp.val]))
    /\ UNCHANGED <<now, teachers, modeDoc, nreq, calc>>

(***************************************************************************)
(* get_latest_fingerprint(): the slot is read again for the answer, after  *)
(* the test against None; subscripting None raises, which the handler      *)
(* answers with 500                                                        *)
(***************************************************************************)
LatestRead(t) ==
    /\ th[t].pc = "latest_read"
    /\ Set(t, Return(th[t], IF latest.set
                            THEN [Resp(200, "ready", "ready")
                                     EXCEPT !.fp = latest.fingerprint_id]
                            ELSE Resp(500, "error", "internal_error")))
    /\ UNCHANGED <<now, teachers, modeDoc, latest, nreq, calc>>

(***************************************************************************)
(* Specifications                                                          *)
(***************************************************************************)
\* one of `reqs` arrives, while fewer than `limit` requests have arrived
Arrive(limit, reqs) ==
    /\ nreq < limit
    /\ \E t \in Threads, req \in reqs : Start(t, req)

\* a store call of an attendance event or of a mode request returns
AttStoreStep(t, ok) ==
    \/ ModeRead(t, ok)
    \/ ModeWrite(t, ok)
    \/ Lookup(t, ok)
    \/ TodayRead(t, ok)
    \/ CheckInGet(t, ok)
    \/ CheckInUpdate(t, ok)
    \/ CheckOutGet(t, ok)
    \/ CheckOutUpdate(t, ok)

\* a store call of any handler returns
StoreStep(t, ok) ==
    \/ AttStoreStep(t, ok)
    \/ ModeDefault(t, ok)
    \/ RegisterSet(t, ok)

\* Teachers are registered, starting from the empty store.
Next ==
    \/ Tick(RegPoints)
    \/ Arrive(MaxRequests, RegRequests)
    \/ \E t \in Threads : AttDate(t)
    \/ \E t \in Threads : FingerprintStore(t)
    \/ \E t \in Threads : LatestRead(t)
    \/ \E t \in Threads, ok \in BOOLEAN : StoreStep(t, ok)

Spec == Init /\ [][Next]_vars

(***************************************************************************)
(* The attendance service after registration: one teacher registered on    *)
(* day 0 at 00:10:00, mode set to 'attendance', 09:00:00 on day 0.         *)
(* Requests are attendance events and mode requests.                       *)
(***************************************************************************)
AnnId == <<0, 600, 1>>

InitAtt ==
    /\ now = [day |-> 0, sec |-> 32400]
    /\ teachers = [id \in {AnnId} |-> TeacherData("Ann", "CSE", 1)]
    /\ modeDoc = "attendance"
    /\ latest = NoSlot
    /\ th = [t \in Threads |-> Idle]
    /\ nreq = 0
    /\ out = NoOut
    /\ calc = NoCalc

NextAtt ==
    \/ Tick(AttPoints)
    \/ Arrive(MaxEvents, AttRequests)
    \/ \E t \in Threads : AttDate(t)
    \/ \E t \in Threads, ok \in BOOLEAN : AttStoreStep(t, ok)

SpecAtt == InitAtt /\ [][NextAtt]_vars

\* the same, with every store call succeeding
NextAttOk ==
    \/ Tick(AttPoints)
    \/ Arrive(MaxEvents, AttRequests)
    \/ \E t \in Threads : AttDate(t)
    \/ \E t \in Threads : AttStoreStep(t, TRUE)

SpecAttOk == InitAtt /\ [][NextAttOk]_vars

\* the events arrive one after the other: a request arrives when no
\* thread serves one
NextAttSeq ==
    \/ Tick(AttPoints)
    \/ (\A t \in Threads : th[t].pc = "idle") /\ Arrive(MaxEvents, AttRequests)
    \/ \E t \in Threads : AttDate(t)
    \/ \E t \in Threads, ok \in BOOLEAN : AttStoreStep(t, ok)

SpecAttSeq == InitAtt /\ [][NextAttSeq]_vars

(***************************************************************************)
(* A working day of the registered teacher: the events arrive one after    *)
(* the other at 09:00:00, 09:10:00, 09:15:00 and 17:30:00.                 *)
(***************************************************************************)
NextDay ==
    \/ Tick(DayPoints)
    \/ (\A t \in Threads : th[t].pc = "idle") /\ Arrive(MaxEvents, DayRequests)
    \/ \E t \in Threads : AttDate(t)
    \/ \E t \in Threads, ok \in BOOLEAN : AttStoreStep(t, ok)

SpecDay == InitAtt /\ [][NextDay]_vars

(***************************************************************************)
(* Two registered teachers, Ann (fingerprint 1) and Bob (fingerprint 2),   *)
(* mode 'attendance'. The events of one teacher arrive one after the       *)
(* other; they overlap with the events of the other teacher.               *)
(***************************************************************************)
BobId == <<0, 600, 2>>

InitTwo ==
    /\ now = [day |-> 0, sec |-> 32400]
    /\ teachers = [id \in {AnnId, BobId} |->
                      IF id = AnnId THEN TeacherData("Ann", "CSE", 1)
                      ELSE TeacherData("Bob", "EEE", 2)]
    /\ modeDoc = "attendance"
    /\ latest = NoSlot
    /\ th = [t \in Threads |-> Idle]
    /\ nreq = 0
    /\ out = NoOut
    /\ calc = NoCalc

\* an event of fingerprint fid arrives while no thread serves an event of
\* that fingerprint
ArriveFor(fid) ==
    /\ \A u \in Threads : th[u].pc # "idle" => th[u].req.fp.val # fid
    /\ Arrive(MaxTwoEvents, {Attendance(IntFp(fid))})

\* a store call of an attendance event returns
EventStoreStep(t, ok) ==
    \/ ModeRead(t, ok)
    \/ Lookup(t, ok)
    \/ TodayRead(t, ok)
    \/ CheckInGet(t, ok)
    \/ CheckInUpdate(t, ok)
    \/ CheckOutGet(t, ok)
    \/ CheckOutUpdate(t, ok)

NextTwo ==
    \/ Tick(TwoPoints)
    \/ \E fid \in FPs : ArriveFor(fid)
    \/ \E t \in Threads : AttDate(t)
    \/ \E t \in Threads, ok \in BOOLEAN : EventStoreStep(t, ok)

SpecTwo == InitTwo /\ [][NextTwo]_vars

(***************************************************************************)
(* The service after overlapping events have left a record without         *)
(* check_in (a state SpecAttOk reaches): 00:10:00 on day 1, Ann's map      *)
(* holds {check_in} for day 0 and {check_out, working_hours} for day 1.    *)
(* The events that follow arrive one after the other.                      *)
(***************************************************************************)
InitLate ==
    /\ now = [day |-> 1, sec |-> 600]
    /\ teachers = [id \in {AnnId} |->
                      [TeacherData("Ann", "CSE", 1) EXCEPT !.attendance =
                          (0 :> [check_in |-> <<23, 50, 0>>])
                          @@ (1 :> [check_out |-> <<0, 10, 0>>,
                                    working_hours |-> <<0, 20>>])]]
    /\ modeDoc = "attendance"
    /\ latest = NoSlot
    /\ th = [t \in Threads |-> Idle]
    /\ nreq = 0
    /\ out = [op |-> "attendance", resp |-> Resp(200, "success", "check_out")]
    /\ calc = NoCalc

NextLate ==
    \/ Tick(DayPoints)
    \/ (\A t \in Threads : th[t].pc = "idle")
          /\ Arrive(MaxLateEvents, {Attendance(IntFp(1))})
    \/ \E t \in Threads : AttDate(t)
    \/ \E t \in Threads, ok \in BOOLEAN : EventStoreStep(t, ok)

SpecLate == InitLate /\ [][NextLate]_vars

(***************************************************************************)
(* Administration of the mode, starting from the empty store with no mode  *)
(* document: set-mode requests and mode queries beside one registration    *)
(* and one check-in                                                        *)
(***************************************************************************)
\* a store call of a request of the mode scenario returns
ModeStoreStep(t, ok) ==
    \/ ModeRead(t, ok)
    \/ ModeDefault(t, ok)
    \/ ModeWrite(t, ok)
    \/ Lookup(t, ok)
    \/ RegisterSet(t, ok)
    \/ TodayRead(t, ok)
    \/ CheckInGet(t, ok)
    \/ CheckInUpdate(t, ok)

NextMode ==
    \/ Arrive(MaxModeRequests, ModeRequests)
    \/ \E t \in Threads : AttDate(t)
    \/ \E t \in Threads, ok \in BOOLEAN : ModeStoreStep(t, ok)

SpecMode == Init /\ [][NextMode]_vars

(***************************************************************************)
(* Validation of request bodies, starting from the empty store             *)
(***************************************************************************)
\* a store call of a request that is validated returns
ValStoreStep(t, ok) ==
    \/ ModeRead(t, ok)
    \/ ModeDefault(t, ok)
    \/ ModeWrite(t, ok)
    \/ Lookup(t, ok)
    \/ RegisterSet(t, ok)

NextVal ==
    \/ Arrive(MaxInvalid, ValRequests)
    \/ \E t \in Threads : AttDate(t)
    \/ \E t \in Threads, ok \in BOOLEAN : ValStoreStep(t, ok)

SpecVal == Init /\ [][NextVal]_vars

(***************************************************************************)
(* The working-duration functions, applied to bounded arguments            *)
(***************************************************************************)
InitCalc ==
    /\ now = [day |-> 0, sec |-> 32400]
    /\ teachers = << >>
    /\ modeDoc = "absent"
    /\ latest = NoSlot
    /\ th = [t \in Threads |-> Idle]
    /\ nreq = 0
    /\ out = NoOut
    /\ calc \in {[NoCalc EXCEPT !.pc = "argument", !.kind = "minutes",
                                 !.minutes = m] : m \in 0..MaxMinutes}
               \cup {[NoCalc EXCEPT !.pc = "argument", !.kind = "times",
                                    !.check_in = a, !.check_out = b] :
                        a \in CalcTimes, b \in CalcTimes}

\* format_minutes_to_hours(minutes) returns its text
Format ==
    /\ calc.pc = "argument"
    /\ calc.kind = "minutes"
    /\ calc' = [calc EXCEPT !.pc = "text",
                            !.text = WorkingHoursText(
                                        format_minutes_to_hours(calc.minutes))]
    /\ UNCHANGED <<now, teachers, modeDoc, latest, th, nreq, out>>

\* calculate_working_hours(check_in, check_out) returns its text
Calculate ==
    /\ calc.pc = "argument"
    /\ calc.kind = "times"
    /\ calc' = [calc EXCEPT !.pc = "text",
                            !.text = WorkingHoursText(
                                        calculate_working_hours(calc.check_in,
                                                                calc.check_out))]
    /\ UNCHANGED <<now, teachers, modeDoc, latest, th, nreq, out>>

\* parse_working_hours_to_minutes(text) returns the minutes
Parse ==
    /\ calc.pc = "text"
    /\ calc' = [calc EXCEPT !.pc = "parsed",
                            !.parsed = parse_working_hours_to_minutes(calc.text)]
    /\ UNCHANGED <<now, teachers, modeDoc, latest, th, nreq, out>>

NextCalc == Format \/ Calculate \/ Parse

SpecCalc == InitCalc /\ [][NextCalc]_vars

(***************************************************************************)
(* The decision on a scan of a checked-in person, for every second of the  *)
(* day: `calc` holds the stored check-in, the time of the scan and what    *)
(* attendance() decides                                                    *)
(***************************************************************************)
\* check-in times of the decided scans: 00:00:00 and 23:50:00
ScanCheckIns == {<<0, 0, 0>>, <<23, 50, 0>>}

\* the time of day of second s
TimeOfSecond(s) ==
    <<(s % 86400) \div 3600, ((s % 86400) % 3600) \div 60, s % 60>>

InitScan ==
    /\ now = [day |-> 0, sec |-> 32400]
    /\ teachers = << >>
    /\ modeDoc = "absent"
    /\ latest = NoSlot
    /\ th = [t \in Threads |-> Idle]
    /\ nreq = 0
    /\ out = NoOut
    /\ calc \in {[pc |-> "scan", check_in |-> c,
                   current_time |-> TimeOfSecond(s),
                   next |-> "", resp |-> NoResp, wh |-> NoTime] :
                     c \in ScanCheckIns, s \in 0..MaxSecond}

\* attendance() decides on today's record {check_in} at current_time
DecideScan ==
    /\ calc.pc = "scan"
    /\ LET r == [Idle EXCEPT !.pc = "att_today", !.req = Attendance(IntFp(1)),
                             !.time = calc.current_time, !.date = 0]
           d == Decide(r, [present |-> TRUE,
                           rec |-> [check_in |-> calc.check_in]])
       IN  calc' = [calc EXCEPT !.pc = "decided", !.next = d.pc,
                                !.resp = d.resp, !.wh = d.wh]
    /\ UNCHANGED <<now, teachers, modeDoc, latest, th, nreq, out>>

NextScan == DecideScan

SpecScan == InitScan /\ [][NextScan]_vars

\* The decision of attendance() on every kind of record for today, taken
\* twice on the same record and time by two handlers.
\* the records for today: none, an empty map, a check_in alone, a completed
\* record, and records without a check_in
DecideRecords ==
    {NoToday, [present |-> TRUE, rec |-> NoRec]}
    \cup {[present |-> TRUE, rec |-> [check_in |-> c]] : c \in ScanCheckIns}
    \cup {[present |-> TRUE,
           rec |-> [check_in |-> c, check_out |-> <<17, 0, 0>>,
                    working_hours |-> <<8, 0>>]] : c \in ScanCheckIns}
    \cup {[present |-> TRUE,
           rec |-> [check_out |-> <<0, 10, 0>>, working_hours |-> <<0, 20>>]],
          [present |-> TRUE, rec |-> [working_hours |-> <<0, 20>>]]}

\* the times of day: the first and the last second of every minute
DecideSeconds == {s \in 0..MaxSecond : s % 60 \in {0, 59}}

\* what a handler that decided `d` on today's record goes on to write under
\* today's date: the record of create_check_in or of create_check_out, or
\* nothing
Mutation(d, today_attendance) ==
    LET attendance == IF today_attendance.present
                      THEN (d.date :> today_attendance.rec) ELSE << >>
    IN  CASE d.pc = "ci_get" ->
               <<"set", CheckInMap(attendance, d.date, d.time)[d.date]>>
          [] d.pc = "co_get" ->
               <<"set", CheckOutMap(attendance, d.date, d.time, d.wh)[d.date]>>
          [] OTHER -> <<"none">>

\* the decision of a handler of thread state r on calc's record and time
Evaluation(r) ==
    LET d == Decide([r EXCEPT !.pc = "att_today", !.time = calc.current_time],
                    calc.today)
    IN  [next |-> d.pc, resp |-> d.resp, wh |-> d.wh,
         mutation |-> Mutation(d, calc.today)]

NoEvaluation == [next |-> "", resp |-> NoResp, wh |-> NoTime,
                 mutation |-> <<"none">>]

InitDecide ==
    /\ now = [day |-> 0, sec |-> 32400]
    /\ teachers = << >>
    /\ modeDoc = "absent"
    /\ latest = NoSlot
    /\ th = [t \in Threads |-> Idle]
    /\ nreq = 0
    /\ out = NoOut
    /\ calc \in {[pc |-> "decide", today |-> a,
                   current_time |-> TimeOfSecond(s),
                   first |-> NoEvaluation, second |-> NoEvaluation] :
                     a \in DecideRecords, s \in DecideSeconds}

\* one handler decides
DecideOnce ==
    /\ calc.pc = "decide"
    /\ calc' = [calc EXCEPT
                  !.pc = "once",
                  !.first = Evaluation([Idle EXCEPT !.req = Attendance(IntFp(1)),
                                                    !.date = 0, !.tid = AnnId])]
    /\ UNCHANGED <<now, teachers, modeDoc, latest, th, nreq, out>>

\* another handler decides on the same record and time
DecideAgain ==
    /\ calc.pc = "once"
    /\ calc' = [calc EXCEPT
                  !.pc = "twice",
                  !.second = Evaluation([Idle EXCEPT !.req = Attendance(IntFp(1)),
                                                     !.date = 0, !.tid = AnnId,
                                                     !.mode = "attendance"])]
    /\ UNCHANGED <<now, teachers, modeDoc, latest, th, nreq, out>>

NextDecide == DecideOnce \/ DecideAgain

SpecDecide == InitDecide /\ [][NextDecide]_vars

\* Teachers are registered and scanned, one request at a time: a request
\* arrives when no handler is running.
NextGate ==
    \/ Tick(RegPoints)
    \/ (\A t \in Threads : th[t].pc = "idle") /\ Arrive(MaxRequests, RegRequests)
    \/ \E t \in Threads : AttDate(t)
    \/ \E t \in Threads : FingerprintStore(t)
    \/ \E t \in Threads : LatestRead(t)
    \/ \E t \in Threads, ok \in BOOLEAN : StoreStep(t, ok)

SpecGate == Init /\ [][NextGate]_vars

(***************************************************************************)
(* Vocabulary of the properties                                            *)
(***************************************************************************)
\* the store `ts` holds a record of teacher `id` for date `d`
HasRecordIn(ts, id, d) == id \in DOMAIN ts /\ d \in DOMAIN ts[id].attendance

RecordIn(ts, id, d) == ts[id].attendance[d]

\* states of a (person, date) pair
IsEmpty(ts, id, d) == ~HasRecordIn(ts, id, d)

IsCheckedIn(ts, id, d) ==
    /\ HasRecordIn(ts, id, d)
    /\ Has(RecordIn(ts, id, d), "check_in")
    /\ ~Has(RecordIn(ts, id, d), "check_out")

IsCompleted(ts, id, d) ==
    /\ HasRecordIn(ts, id, d)
    /\ Has(RecordIn(ts, id, d), "check_in")
    /\ Has(RecordIn(ts, id, d), "check_out")

\* thread t takes a step
Stepped(t) == th'[t] # th[t]

\* thread t takes a step in which its handler returns `outcome`
Returns(t, outcome) ==
    /\ th[t].pc # "idle"
    /\ th'[t].pc = "idle"
    /\ out'.op = th[t].req.op
    /\ out'.resp.outcome = outcome

\* thread t takes a step that leaves its handler at `pc`
Reaches(t, pc) == th'[t].pc = pc

(***************************************************************************)
(* C1                                                                      *)
(***************************************************************************)
\* the step of a check-in event (one that passed the mode gate) of a
\* registered person who has no record for the event's date, as the claim
\* has it: the event goes on to the write, and the write leaves the record
\* {check_in = event time} and answers check_in
C1_StepAsClaimed(t) ==
    LET r == th[t]
    IN  /\ (r.pc = "mode_read" /\ modeDoc = "attendance"
                /\ r.req.op = "attendance" /\ r.req.fp.tag = "int")
            => Reaches(t, "att_lookup")
        /\ (r.pc = "att_lookup" /\ WithFingerprint(r.req.fp.val) # {})
            => Reaches(t, "att_today")
        /\ (r.pc = "att_today" /\ IsEmpty(teachers, r.tid, r.date))
            => Reaches(t, "ci_get")
        /\ (r.pc = "ci_get" /\ IsEmpty(teachers, r.tid, r.date))
            => Reaches(t, "ci_update")
        /\ (r.pc = "ci_update" /\ IsEmpty(teachers, r.tid, r.date))
            => /\ Returns(t, "check_in")
               /\ out'.resp.status = "success"
               /\ HasRecordIn(teachers', r.tid, r.date)
               /\ RecordIn(teachers', r.tid, r.date) = [check_in |-> r.time]

\* the same step, or the error the handler answers when the store call of
\* the step fails, with nothing written
C1_StepOrFailure(t) ==
    LET r == th[t]
    IN  /\ (r.pc = "mode_read" /\ modeDoc = "attendance"
                /\ r.req.op = "attendance" /\ r.req.fp.tag = "int")
            => Reaches(t, "att_lookup") /\ teachers' = teachers
        /\ (r.pc = "att_lookup" /\ WithFingerprint(r.req.fp.val) # {})
            => \/ Reaches(t, "att_today")
               \/ Returns(t, "not_found") /\ teachers' = teachers
        /\ (r.pc = "att_today" /\ IsEmpty(teachers, r.tid, r.date))
            => Reaches(t, "ci_get") /\ teachers' = teachers
        /\ (r.pc = "ci_get" /\ IsEmpty(teachers, r.tid, r.date))
            => \/ Reaches(t, "ci_update") /\ teachers' = teachers
               \/ Returns(t, "storage_error") /\ teachers' = teachers
        /\ (r.pc = "ci_update" /\ IsEmpty(teachers, r.tid, r.date))
            => \/ /\ Returns(t, "check_in")
                  /\ out'.resp.status = "success"
                  /\ HasRecordIn(teachers', r.tid, r.date)
                  /\ RecordIn(teachers', r.tid, r.date) = [check_in |-> r.time]
               \/ Returns(t, "storage_error") /\ teachers' = teachers

InEvent(t) ==
    th[t].pc \in {"att_today", "ci_get", "ci_update", "co_get", "co_update"}

\* whole minutes from the stored check-in of the event's (person, date) to
\* the event's time
StoredElapsed(t) ==
    MinutesPassed(RecordIn(teachers, th[t].tid, th[t].date).check_in, th[t].time)

\* C2 as stated: for a person whose record on D has check_in and no
\* check_out, an event with elapsed < cooldown yields cooldown_rejected with
\* remaining_minutes = cooldown - floor(elapsed minutes), and the stored
\* record is the same before and after the event.
C2_Original ==
    [][\A t \in Threads :
          (/\ Stepped(t)
           /\ InEvent(t)
           /\ IsCheckedIn(teachers, th[t].tid, th[t].date)
           /\ StoredElapsed(t) < COOLDOWN_MINUTES)
          => /\ teachers' = teachers
             /\ th[t].pc = "att_today"
                   => /\ Returns(t, "cooldown_rejected")
                      /\ out'.resp.remaining = COOLDOWN_MINUTES - StoredElapsed(t)]_vars

(***************************************************************************)
(* C3                                                                      *)
(***************************************************************************)
\* C3 as stated: for a person whose record on D has check_in and no
\* check_out, an event with elapsed >= cooldown yields check_out, stores
\* check_out = event time and working_duration with hours = elapsed // 60,
\* minutes = elapsed % 60, elapsed the whole minutes from check_in to the
\* event time.
C3_Original ==
    [][\A t \in Threads :
          (/\ Stepped(t)
           /\ InEvent(t)
           /\ IsCheckedIn(teachers, th[t].tid, th[t].date)
           /\ StoredElapsed(t) >= COOLDOWN_MINUTES)
          => /\ th[t].pc = "att_today" => Reaches(t, "co_get")
             /\ th[t].pc = "co_get" => Reaches(t, "co_update")
             /\ th[t].pc \notin {"ci_get", "ci_update"}
             /\ th[t].pc = "co_update"
                   => /\ Returns(t, "check_out")
                      /\ IsCompleted(teachers', th[t].tid, th[t].date)
                      /\ RecordIn(teachers', th[t].tid, th[t].date).check_out
                            = th[t].time
                      /\ RecordIn(teachers', th[t].tid, th[t].date).working_hours
                            = <<StoredElapsed(t) \div 60, StoredElapsed(t) % 60>>]_vars

(***************************************************************************)
(* C4                                                                      *)
(***************************************************************************)
\* C4 as stated: for a person whose record on D has check_in and check_out,
\* every further attendance event on D yields already_completed and leaves
\* the stored record unchanged.
C4_Original ==
    [][\A t \in Threads :
          (/\ Stepped(t)
           /\ InEvent(t)
           /\ IsCompleted(teachers, th[t].tid, th[t].date))
          => /\ teachers' = teachers
             /\ th[t].pc = "att_today" => Returns(t, "already_completed")]_vars

(***************************************************************************)
(* C5                                                                      *)
(***************************************************************************)
\* the field `key` of the record of (id, d), once stored, is still there
\* with the same value after the step
KeepsField(id, d, key) ==
    (HasRecordIn(teachers, id, d) /\ Has(RecordIn(teachers, id, d), key))
    => /\ HasRecordIn(teachers', id, d)
       /\ Has(RecordIn(teachers', id, d), key)
       /\ RecordIn(teachers', id, d)[key] = RecordIn(teachers, id, d)[key]

\* C5 as stated: for every (person, date) and every interleaving of the
\* person's attendance events, a stored check_in is never replaced and a
\* stored check_out is never replaced or removed.
C5_Original ==
    [][\A id \in DOMAIN teachers : \A d \in Days :
          KeepsField(id, d, "check_in") /\ KeepsField(id, d, "check_out")]_vars

(***************************************************************************)
(* C6                                                                      *)
(***************************************************************************)
\* C6 as stated: the state of (person, date) only moves EMPTY -> CHECKED_IN
\* -> COMPLETED: never from CHECKED_IN back to EMPTY, and once COMPLETED it
\* stays COMPLETED with the same check_in and check_out.
C6_Original ==
    [][\A id \in DOMAIN teachers : \A d \in Days :
          /\ IsCheckedIn(teachers, id, d) => ~IsEmpty(teachers', id, d)
          /\ IsCompleted(teachers, id, d)
                => /\ IsCompleted(teachers', id, d)
                   /\ RecordIn(teachers', id, d).check_in
                         = RecordIn(teachers, id, d).check_in
                   /\ RecordIn(teachers', id, d).check_out
                         = RecordIn(teachers, id, d).check_out]_vars

(***************************************************************************)
(* C7                                                                      *)
(***************************************************************************)
RegistrationOps == {"register", "register_fingerprint"}

\* thread t is inside database.get_system_mode()
AtGate(t) == th[t].pc \in {"mode_read", "mode_default"}

\* thread t is past the mode gate of an attendance event
PastAttendanceGate(t) ==
    th[t].pc \in {"att_lookup", "att_today", "ci_get", "ci_update",
                  "co_get", "co_update"}

\* thread t is past the mode gate of a registration event
PastRegistrationGate(t) ==
    th[t].pc \in {"reg_lookup", "reg_set", "rf_lookup", "rf_store"}

\* the step changes no person record, attendance record or pending slot
PersonsAndSlotUnchanged == teachers' = teachers /\ latest' = latest

\* C7 as stated: while the stored mode is not 'attendance' every attendance
\* event is rejected, and while it is not 'register' every registration
\* event (form and sensor hand-off) is rejected, before any person lookup
\* and with no person record, attendance record or pending slot changed.
C7_Original ==
    [][\A t \in Threads :
          (Stepped(t) /\ AtGate(t))
          => /\ (th[t].req.op = "attendance" /\ modeDoc = "register")
                   => Returns(t, "mode_conflict") /\ PersonsAndSlotUnchanged
             /\ (th[t].req.op \in RegistrationOps /\ modeDoc # "register")
                   => /\ Returns(t, "mode_conflict") \/ Reaches(t, "mode_default")
                      /\ PersonsAndSlotUnchanged]_vars

\* C7 amended: a registration event is rejected whenever the stored mode is
\* not 'register'; an attendance event is rejected whenever the mode its
\* gate obtains is not 'attendance', where the gate obtains 'attendance'
\* instead of the stored mode when the mode read fails. No handler gets
\* past its gate with another mode than the one it needs, and a rejection
\* happens at the gate, before any person lookup, with no person record,
\* attendance record or pending slot changed.
C7_ModeGate ==
    /\ [](\A t \in Threads :
             /\ PastAttendanceGate(t) => th[t].mode = "attendance"
             /\ PastRegistrationGate(t) => th[t].mode = "register")
    /\ [][\A t \in Threads :
             /\ (Stepped(t) /\ AtGate(t))
                => /\ PersonsAndSlotUnchanged
                   /\ (th[t].req.op \in RegistrationOps /\ modeDoc # "register")
                         => \/ Returns(t, "mode_conflict") /\ out'.resp.code = 403
                            \/ Reaches(t, "mode_default")
                   /\ (th[t].req.op = "attendance" /\ modeDoc = "register"
                          /\ th[t].pc = "mode_read")
                         => \/ /\ Returns(t, "mode_conflict")
                               /\ out'.resp.code = 403
                               /\ out'.resp.mode = "register"
                            \/ Reaches(t, "att_lookup") /\ th'[t].mode = "attendance"
                            \/ Returns(t, "validation_error")
             /\ (Stepped(t) /\ Returns(t, "mode_conflict")) => AtGate(t)]_vars

\* an attendance event was rejected while the stored mode is 'register'
C7_Witness ==
    /\ out.op = "attendance"
    /\ out.resp.outcome = "mode_conflict"
    /\ modeDoc = "register"

(***************************************************************************)
(* C8                                                                      *)
(***************************************************************************)
\* thread t serves an attendance event whose fingerprint identifier no
\* teacher document holds
UnknownFingerprint(t) ==
    /\ th[t].req.op = "attendance"
    /\ th[t].req.fp.tag = "int"
    /\ WithFingerprint(th[t].req.fp.val) = {}

\* C8 as stated: an attendance event with a fingerprint identifier of no
\* registered person yields not_found (404) whatever the mode is, and
\* changes no stored person, attendance record or slot.
C8_Original ==
    [][\A t \in Threads :
          (Stepped(t) /\ UnknownFingerprint(t))
          => /\ PersonsAndSlotUnchanged
             /\ th'[t].pc = "idle"
                   => Returns(t, "not_found") /\ out'.resp.code = 404]_vars

\* C8 amended: an attendance event with a fingerprint identifier of no
\* registered person yields not_found (404) when its mode gate lets it
\* through, and is rejected with the mode conflict (403) before the lookup
\* when the gate reads the stored mode 'register'; it changes no stored
\* person, attendance record or slot.
C8_NotFound ==
    [][\A t \in Threads :
          (Stepped(t) /\ UnknownFingerprint(t))
          => /\ PersonsAndSlotUnchanged
             /\ th[t].pc = "att_lookup"
                   => /\ Returns(t, "not_found")
                      /\ out'.resp.code = 404
                      /\ out'.resp.status = "error"
             /\ th'[t].pc = "idle"
                   => \/ Returns(t, "not_found") /\ out'.resp.code = 404
                      \/ /\ Returns(t, "mode_conflict")
                         /\ out'.resp.code = 403
                         /\ AtGate(t)
                         /\ modeDoc = "register"]_vars

\* not_found was answered to an attendance event
C8_Witness ==
    /\ out.op = "attendance"
    /\ out.resp.outcome = "not_found"
    /\ out.resp.code = 404
    /\ WithFingerprint(1) = {}

(***************************************************************************)
(* C9                                                                      *)
(***************************************************************************)
\* C9 as stated: a registration (in register mode, all fields present)
\* whose fingerprint identifier is bound to an existing person yields
\* duplicate and changes no person.
C9_Original ==
    [][\A t \in Threads :
          (/\ Stepped(t)
           /\ th[t].pc = "reg_lookup"
           /\ WithFingerprint(th[t].req.fp.val) # {})
          => Returns(t, "duplicate") /\ teachers' = teachers]_vars

(***************************************************************************)
(* C10                                                                     *)
(***************************************************************************)
\* C10 as stated: no two person records have the same fingerprint
\* identifier.
C10_Original ==
    \A a \in DOMAIN teachers : \A b \in DOMAIN teachers :
        teachers[a].fingerprint_id = teachers[b].fingerprint_id => a = b

(***************************************************************************)
(* C11                                                                     *)
(***************************************************************************)
\* thread t serves an event of a teacher whose record for the event's date
\* has the check-in `check_in` and no check-out
CheckedInAt(t, check_in) ==
    /\ InEvent(t)
    /\ IsCheckedIn(teachers, th[t].tid, th[t].date)
    /\ RecordIn(teachers, th[t].tid, th[t].date).check_in = check_in

\* the steps of thread t's event end in check_out, and the text of the
\* working duration stored with it is `text`
ChecksOutWith(t, text) ==
    /\ th[t].pc = "att_today" => Reaches(t, "co_get")
    /\ th[t].pc = "co_get" => Reaches(t, "co_update")
    /\ th[t].pc = "co_update"
          => /\ Returns(t, "check_out")
             /\ IsCompleted(teachers', th[t].tid, th[t].date)
             /\ WorkingHoursText(
                   RecordIn(teachers', th[t].tid, th[t].date).working_hours) = text

\* C11 as stated: with cooldown 15 and check_in 09:00:00 stored, an event at
\* 09:10:00 yields cooldown_rejected with remaining_minutes = 5, an event at
\* 09:15:00 yields check_out with '0 hours 15 minutes', and an event at
\* 17:30:00 yields check_out with '8 hours 30 minutes'.
C11_Original ==
    [][\A t \in Threads :
          (Stepped(t) /\ CheckedInAt(t, <<9, 0, 0>>))
          => /\ (th[t].time = <<9, 10, 0>> /\ th[t].pc = "att_today")
                   => /\ Returns(t, "cooldown_rejected")
                      /\ out'.resp.remaining = 5
             /\ th[t].time = <<9, 15, 0>>
                   => ChecksOutWith(t, <<"0", " ", "h", "o", "u", "r", "s", " ",
                                         "1", "5", " ", "m", "i", "n", "u", "t",
                                         "e", "s">>)
             /\ th[t].time = <<17, 30, 0>>
                   => ChecksOutWith(t, <<"8", " ", "h", "o", "u", "r", "s", " ",
                                         "3", "0", " ", "m", "i", "n", "u", "t",
                                         "e", "s">>)]_vars

(***************************************************************************)
(* C12                                                                     *)
(***************************************************************************)
\* C12 as stated: when the event's time of day is earlier than the check-in
\* stored under the same date, elapsed is computed as if the event were on
\* the next day: with check_in 23:50:00 and event time 00:10:00 the outcome
\* is check_out with working duration '0 hours 20 minutes'.
C12_Original ==
    [][\A t \in Threads :
          (/\ Stepped(t)
           /\ CheckedInAt(t, <<23, 50, 0>>)
           /\ th[t].time = <<0, 10, 0>>)
          => /\ StoredElapsed(t) = 20
             /\ ChecksOutWith(t, <<"0", " ", "h", "o", "u", "r", "s", " ",
                                   "2", "0", " ", "m", "i", "n", "u", "t",
                                   "e", "s">>)]_vars

(***************************************************************************)
(* C13                                                                     *)
(***************************************************************************)
\* the whole minutes of the argument of the evaluation held in `calc`
CalcMinutes ==
    IF calc.kind = "minutes" THEN calc.minutes
    ELSE DiffSeconds(calc.check_in, calc.check_out) \div 60

\* C13: for every whole-minute count m >= 0, parsing the text that
\* format_minutes_to_hours gives for m returns m, and parsing the text that
\* calculate_working_hours gives returns the whole minutes elapsed between
\* its two times.
C13_RoundTrip ==
    calc.pc = "parsed" => calc.parsed = CalcMinutes

\* "23 hours 59 minutes", formatted from 1439, was parsed back
C13_Witness ==
    /\ calc.pc = "parsed"
    /\ calc.kind = "minutes"
    /\ calc.minutes = 1439
    /\ calc.text = WorkingHoursText(<<23, 59>>)
    /\ calc.parsed = 1439

(***************************************************************************)
(* C14                                                                     *)
(***************************************************************************)
\* whole hours and whole minutes from check_in to check_out, check_out
\* advanced by one day when it is earlier than check_in
HoursAndMinutes(check_in, check_out) ==
    <<DiffSeconds(check_in, check_out) \div 3600,
      (DiffSeconds(check_in, check_out) % 3600) \div 60>>

\* C14 as stated: in every reachable state, every stored record that has a
\* working duration also has check_in and check_out, and the working
\* duration is the whole hours and whole minutes from the stored check_in
\* to the stored check_out.
C14_Original ==
    \A id \in DOMAIN teachers : \A d \in DOMAIN teachers[id].attendance :
        LET rec == teachers[id].attendance[d]
        IN  Has(rec, "working_hours")
            => /\ Has(rec, "check_in")
               /\ Has(rec, "check_out")
               /\ rec.working_hours = HoursAndMinutes(rec.check_in, rec.check_out)

(***************************************************************************)
(* C15                                                                     *)
(***************************************************************************)
\* thread t takes a step in which its handler answers a storage error with
\* nothing written, and the handler is over: the thread is free again and
\* no further request was made
FailsWithStorageError(t) ==
    /\ Returns(t, "storage_error")
    /\ out'.resp.code = 500
    /\ out'.resp.status = "error"
    /\ teachers' = teachers
    /\ th'[t] = Idle
    /\ nreq' = nreq

\* thread t takes a step in which its handler writes the map it prepared
\* and answers `outcome`
WritesAndAnswers(t, outcome) ==
    /\ Returns(t, outcome)
    /\ out'.resp.status = "success"
    /\ teachers' = [teachers EXCEPT ![th[t].tid].attendance = th[t].att]

\* the steps of the write of a check-in or of a check-out
C15_WriteStep(t) ==
    LET r == th[t]
    IN  /\ r.pc = "ci_get"
            => \/ Reaches(t, "ci_update") /\ teachers' = teachers
               \/ FailsWithStorageError(t)
        /\ r.pc = "ci_update"
            => WritesAndAnswers(t, "check_in") \/ FailsWithStorageError(t)
        /\ r.pc = "co_get"
            => \/ Reaches(t, "co_update") /\ teachers' = teachers
               \/ FailsWithStorageError(t)
        /\ r.pc = "co_update"
            => WritesAndAnswers(t, "check_out") \/ FailsWithStorageError(t)
        /\ (r.req.op = "attendance" /\ Returns(t, "storage_error"))
            => /\ r.pc \in {"ci_get", "ci_update", "co_get", "co_update"}
               /\ FailsWithStorageError(t)
        /\ (r.req.op = "attendance" /\ teachers' # teachers)
            => Returns(t, "check_in") \/ Returns(t, "check_out")

\* C15: the write of a check-in or of a check-out either is applied and
\* answered check_in / check_out, or fails: then the outcome is a storage
\* error (500), the handler ends without another attempt, and no step of
\* the event has changed the store, so the next scan is decided from the
\* record as it was.
C15_FailedWrite ==
    [][\A t \in Threads : Stepped(t) => C15_WriteStep(t)]_vars

\* a first scan was answered with a storage error, all handlers are over
\* and the teacher still has no record
C15_Witness ==
    /\ out.op = "attendance"
    /\ out.resp.outcome = "storage_error"
    /\ \A t \in Threads : th[t].pc = "idle"
    /\ teachers[AnnId].attendance = NoRec

(***************************************************************************)
(* C16                                                                     *)
(***************************************************************************)
\* the person lookup of an attendance event for a registered fingerprint:
\* the person is found, or the read fails and a storage error is answered
C16_LookupStep(t) ==
    LET r == th[t]
    IN  (r.pc = "att_lookup" /\ WithFingerprint(r.req.fp.val) # {})
            => /\ Reaches(t, "att_today") \/ Returns(t, "storage_error")
               /\ teachers' = teachers

\* the read of today's record of a person who is checked in or completed:
\* the event does not go on to a check-in, and a check-in never replaces
\* an existing record
C16_TodayStep(t) ==
    LET r == th[t]
        recorded == \/ IsCheckedIn(teachers, r.tid, r.date)
                    \/ IsCompleted(teachers, r.tid, r.date)
    IN  /\ (r.pc = "att_today" /\ recorded)
            => /\ ~Reaches(t, "ci_get")
               /\ teachers' = teachers
        /\ (r.pc = "ci_update" /\ recorded)
            => /\ ~Returns(t, "check_in")
               /\ teachers' = teachers

\* C16 as stated: when a store read of an attendance event fails (the
\* person lookup, or the read of today's record) the outcome is a storage
\* error and nothing is written; a failed read of today's record of a
\* person who is checked in or completed never yields check_in and never
\* overwrites the record.
C16_Original ==
    [][\A t \in Threads : Stepped(t) => C16_LookupStep(t) /\ C16_TodayStep(t)]_vars

(***************************************************************************)
(* C17                                                                     *)
(***************************************************************************)
\* thread t takes a step in which its handler answers a validation error
RejectsAsInvalid(t) ==
    /\ Returns(t, "validation_error")
    /\ out'.resp.code = 400
    /\ out'.resp.status = "error"

\* thread t takes a step of a handler that neither reads nor writes the
\* person store: it does not go on to a store call on a teacher document,
\* and the store is unchanged
KeepsOffPersons(t) ==
    /\ th'[t].pc \in {"idle", "mode_read", "mode_default"}
    /\ teachers' = teachers

\* an attendance request that is not JSON, or JSON without a fingerprint_id
AttendanceWithoutFingerprint(req) ==
    /\ req.op = "attendance"
    /\ req.kind # "json" \/ req.fp.tag = "none"

\* C17 as stated: an attendance request that is not JSON, or that is JSON
\* without a fingerprint_id, is always rejected with a validation error
\* (400, status 'error') and never reads or writes the person store.
C17_Original ==
    [][\A t \in Threads :
          (Stepped(t) /\ AttendanceWithoutFingerprint(th[t].req))
              => /\ KeepsOffPersons(t)
                 /\ th'[t].pc = "idle" => RejectsAsInvalid(t)]_vars

(***************************************************************************)
(* C18                                                                     *)
(***************************************************************************)
\* a registration request (a JSON object or a form) in which the name, the
\* department or the fingerprint identifier is missing
RegistrationWithMissingField(req) ==
    /\ req.op = "register"
    /\ req.kind \in {"json", "form"}
    /\ req.name = "" \/ req.department = "" \/ req.fp.tag = "none"

\* C18 as stated: a registration request with a missing name, department
\* or fingerprint identifier is always rejected with a validation error
\* (400, status 'error'); it makes no call on the person store and creates
\* no person.
C18_Original ==
    [][\A t \in Threads :
          (Stepped(t) /\ RegistrationWithMissingField(th[t].req))
              => /\ KeepsOffPersons(t)
                 /\ latest' = latest
                 /\ th'[t].pc = "idle" => RejectsAsInvalid(t)]_vars

(***************************************************************************)
(* C19                                                                     *)
(***************************************************************************)
\* a registration form with name and department whose fingerprint_id is
\* not an integer
FormWithBadFingerprint(req) ==
    /\ req.op = "register"
    /\ req.kind = "form"
    /\ req.name # ""
    /\ req.department # ""
    /\ req.fp.tag = "str"

\* C19 as stated: a form-encoded registration request with name and
\* department whose fingerprint_id is not an integer is always rejected
\* with a validation error (400, status 'error') and creates no person.
C19_Original ==
    [][\A t \in Threads :
          (Stepped(t) /\ FormWithBadFingerprint(th[t].req))
              => /\ teachers' = teachers
                 /\ th'[t].pc = "idle" => RejectsAsInvalid(t)]_vars

(***************************************************************************)
(* C20                                                                     *)
(***************************************************************************)
\* outcomes of attendance()
AttendanceOutcomes ==
    {"check_in", "check_out", "cooldown_rejected", "already_completed",
     "not_found", "mode_conflict", "validation_error", "storage_error",
     "internal_error", "invalid_state"}

\* C20: every response of the attendance operation has one of the
\* operation's outcomes and carries a status that is 'success' or 'error',
\* a message and a server_time; the status is 'success' exactly when the
\* outcome is check_in or check_out.
C20_Response ==
    out.op = "attendance"
        => /\ out.resp.outcome \in AttendanceOutcomes
           /\ {"status", "message", "server_time"}
                  \subseteq AttendanceKeys(out.resp.outcome)
           /\ out.resp.status \in {"success", "error"}
           /\ out.resp.status = "success"
                  <=> out.resp.outcome \in {"check_in", "check_out"}

\* the third scan of the day was answered: the record is complete, and the
\* answer is an error
C20_Witness ==
    /\ out.op = "attendance"
    /\ out.resp.outcome = "already_completed"
    /\ out.resp.status = "error"
    /\ IsCompleted(teachers, AnnId, 0)

(***************************************************************************)
(* C21                                                                     *)
(***************************************************************************)
\* thread t takes the step in which its handler gets the mode from
\* database.get_system_mode() and passes or fails the mode gate
DecidesGate(t) ==
    /\ AtGate(t)
    /\ ~AtGate(t)'

\* the gate decision of each handler when the mode obtained is 'attendance'
DecidedAsAttendance(t) ==
    LET r == th[t]
    IN  /\ r.req.op = "attendance"
            => /\ ~Returns(t, "mode_conflict")
               /\ (r.req.kind = "json" /\ r.req.fp.tag = "int")
                     => Reaches(t, "att_lookup")
        /\ r.req.op \in RegistrationOps
            => /\ Returns(t, "mode_conflict")
               /\ out'.resp.code = 403
               /\ PersonsAndSlotUnchanged
        /\ r.req.op = "get_mode"
            => /\ Returns(t, "mode")
               /\ out'.resp.mode = "attendance"

\* C21: while no mode document is stored, the mode a handler obtains is
\* 'attendance': the mode query answers 'attendance', attendance events
\* pass the gate and registration events are rejected (403); this lasts
\* until a set-mode request stores 'register'.
C21_DefaultMode ==
    [][\A t \in Threads :
          (Stepped(t) /\ modeDoc # "register" /\ DecidesGate(t))
              => DecidedAsAttendance(t)]_vars

\* the only request so far was a registration: it was rejected, and no
\* set-mode request has stored a mode
C21_Witness ==
    /\ nreq = 1
    /\ out.op = "register"
    /\ out.resp.outcome = "mode_conflict"
    /\ modeDoc \in {"absent", "attendance"}

(***************************************************************************)
(* C22                                                                     *)
(***************************************************************************)
\* the step adds one person with the fields of the request of thread t and
\* an empty attendance map, and leaves the other persons as they were
CreatesPerson(t) ==
    \E id \in DOMAIN teachers' \ DOMAIN teachers :
        /\ DOMAIN teachers' = DOMAIN teachers \cup {id}
        /\ teachers'[id] = [name |-> th[t].req.name,
                            department |-> th[t].req.department,
                            fingerprint_id |-> th[t].req.fp.val,
                            attendance |-> NoRec]
        /\ \A old \in DOMAIN teachers : teachers'[old] = teachers[old]

\* the steps of C22: the write of a registration whose fingerprint is not
\* bound, and the person lookup of an attendance event past the mode gate
\* whose fingerprint is bound
C22_Step(t) ==
    LET r == th[t]
    IN  /\ (r.pc = "reg_set" /\ WithFingerprint(r.req.fp.val) = {}
                /\ Returns(t, "registered"))
            => CreatesPerson(t)
        /\ (r.pc = "att_lookup" /\ WithFingerprint(r.req.fp.val) # {})
            => /\ Reaches(t, "att_today")
               /\ th'[t].tid \in WithFingerprint(r.req.fp.val)

\* C22 as stated: a registration that succeeds (register mode, fields
\* valid, fingerprint not bound) creates exactly one new person with the
\* supplied name, department and fingerprint identifier and an empty
\* attendance map, and a following attendance event for that fingerprint in
\* attendance mode finds that person.
C22_Original ==
    [][\A t \in Threads : Stepped(t) => C22_Step(t)]_vars

(***************************************************************************)
(* C23                                                                     *)
(***************************************************************************)
\* teacher documents that do not hold the fingerprint of the event of
\* thread t
OtherPersons(t) ==
    {id \in DOMAIN teachers : teachers[id].fingerprint_id # th[t].req.fp.val}

\* the step of an attendance event of thread t, as it is when the events of
\* the person run alone: the event is bound to the person of its
\* fingerprint, what it read of today's record is still what is stored,
\* the map it writes was made from the attendance map that is stored, and
\* the documents of the other persons are not changed
C23_Step(t) ==
    LET r == th[t]
    IN  /\ \A id \in OtherPersons(t) : teachers'[id] = teachers[id]
        /\ InEvent(t)'
            => /\ th'[t].tid \in DOMAIN teachers
               /\ teachers[th'[t].tid].fingerprint_id = r.req.fp.val
        /\ (InEvent(t) /\ r.pc # "att_today" /\ r.today.present)
            => /\ HasRecordIn(teachers, r.tid, r.date)
               /\ RecordIn(teachers, r.tid, r.date) = r.today.rec
        /\ r.pc = "ci_update"
            => r.att = CheckInMap(teachers[r.tid].attendance, r.date, r.time)
        /\ r.pc = "co_update"
            => r.att = CheckOutMap(teachers[r.tid].attendance, r.date,
                                   r.time, r.wh)

\* C23: attendance events of two different persons do not affect each
\* other in any interleaving of their store calls: an event reads and
\* writes the document of its own person only, and what it read and
\* prepared is never made stale by an event of the other person, so each
\* person's record develops as if that person's events ran alone.
C23_Isolation ==
    [][\A t \in Threads :
          (Stepped(t) /\ th[t].req.op = "attendance") => C23_Step(t)]_vars

\* Ann is checked in on day 0; her check-out and Bob's check-in are both
\* between their read and their write
C23_Witness ==
    /\ IsCheckedIn(teachers, AnnId, 0)
    /\ \E t \in Threads, u \in Threads :
          /\ th[t].pc = "co_update" /\ th[t].tid = AnnId
          /\ th[u].pc = "ci_update" /\ th[u].tid = BobId

(***************************************************************************)
(* C24                                                                     *)
(***************************************************************************)
\* seconds from the stored check-in to the time of the scan, within a day
ElapsedSeconds ==
    (ParseTime(calc.current_time) + 86400 - ParseTime(calc.check_in)) % 86400

\* the decision is the rejection for cooldown
ScanRejected ==
    /\ calc.next = "return"
    /\ calc.resp.outcome = "cooldown_rejected"

\* the decision is the check-out
ScanChecksOut == calc.next = "co_get"

\* C24: for every elapsed e in seconds, 0 <= e < 24h, the scan is rejected
\* for cooldown exactly when floor(e / 60) < cooldown, with
\* remaining_minutes = cooldown - floor(e / 60), and is a check-out
\* otherwise; e = cooldown * 60 is a check-out, and e = cooldown * 60 - 1 is
\* rejected with remaining_minutes = 1.
C24_Boundary ==
    calc.pc = "decided"
        => /\ ScanRejected <=> ElapsedSeconds \div 60 < COOLDOWN_MINUTES
           /\ ScanChecksOut <=> ElapsedSeconds \div 60 >= COOLDOWN_MINUTES
           /\ ScanRejected
                 => calc.resp.remaining
                       = COOLDOWN_MINUTES - ElapsedSeconds \div 60
           /\ ElapsedSeconds = COOLDOWN_MINUTES * 60 => ScanChecksOut
           /\ ElapsedSeconds = COOLDOWN_MINUTES * 60 - 1
                 => ScanRejected /\ calc.resp.remaining = 1

\* the scan one second before the end of the cooldown, across midnight, was
\* rejected with one minute remaining
C24_Witness ==
    /\ calc.pc = "decided"
    /\ calc.check_in = <<23, 50, 0>>
    /\ calc.current_time = <<0, 4, 59>>
    /\ ScanRejected
    /\ calc.resp.remaining = 1

(***************************************************************************)
(* C25                                                                     *)
(***************************************************************************)
\* the step is a step of a set-mode request
SetModeStep == \E t \in Threads : Stepped(t) /\ th[t].req.op = "set_mode"

\* C25 as stated: the stored mode is changed only by the set-mode
\* operation; evaluating the mode gate (in a registration or attendance
\* event or in the mode query) never writes the mode store and never
\* replaces a mode an administrator has set.
C25_Original ==
    [][modeDoc' # modeDoc => SetModeStep]_vars

(***************************************************************************)
(* C26                                                                     *)
(***************************************************************************)
Modes == {"register", "attendance"}

\* the gate decision of thread t is the one for mode m
DecidedAs(t, m) ==
    LET r == th[t]
    IN  /\ r.req.op = "attendance"
            => (Returns(t, "mode_conflict") <=> m # "attendance")
        /\ r.req.op \in RegistrationOps
            => (Returns(t, "mode_conflict") <=> m # "register")
        /\ r.req.op = "get_mode"
            => Returns(t, "mode") /\ out'.resp.mode = m

\* a step of a set-mode request: a value other than the two modes is
\* rejected with an error and the stored mode stays; an accepted value is
\* the stored mode afterwards
C26_SetStep(t) ==
    LET r == th[t]
    IN  /\ lower(r.req.mode) \notin Modes
            => /\ Returns(t, "validation_error")
               /\ out'.resp.status = "error"
               /\ modeDoc' = modeDoc
        /\ Returns(t, "mode_set") => modeDoc' = lower(r.req.mode)

\* the stored mode is one of the two modes once a mode is stored
C26_Stored == modeDoc' \in Modes \cup {"absent"}

\* a gate check that reads a stored mode decides by it
C26_Seen ==
    \A t \in Threads :
        (Stepped(t) /\ th[t].pc = "mode_read" /\ DecidesGate(t)
            /\ modeDoc \in Modes)
        => DecidedAs(t, modeDoc)

\* a stored mode stays until the next set-mode request
C26_Kept == (modeDoc \in Modes /\ modeDoc' # modeDoc) => SetModeStep

\* C26 as stated: the stored mode, once one is stored, is 'register' or
\* 'attendance'; a set-mode request with another value is rejected with an
\* error and leaves the stored mode unchanged; a set-mode request with a
\* valid value makes that value the mode seen by the next gate check.
C26_Original ==
    [][/\ C26_Stored
       /\ \A t \in Threads :
             (Stepped(t) /\ th[t].req.op = "set_mode") => C26_SetStep(t)
       /\ C26_Seen
       /\ C26_Kept]_vars

(***************************************************************************)
(* C28                                                                     *)
(***************************************************************************)
\* C28 as stated: in every reachable state every stored record that has
\* check_out also has check_in, and the invalid-state outcome is never
\* produced.
C28_Original ==
    /\ \A id \in DOMAIN teachers : \A d \in DOMAIN teachers[id].attendance :
           Has(teachers[id].attendance[d], "check_out")
               => Has(teachers[id].attendance[d], "check_in")
    /\ ~(out.op = "attendance" /\ out.resp.outcome = "invalid_state")

(***************************************************************************)
(* C27                                                                     *)
(***************************************************************************)
\* today's record of the event of thread t exists and has no check_in
RecordWithoutCheckIn(t) ==
    /\ HasRecordIn(teachers, th[t].tid, th[t].date)
    /\ ~Has(RecordIn(teachers, th[t].tid, th[t].date), "check_in")

\* C27 as stated: when today's record exists but has no check_in, the
\* attendance event yields the invalid-state internal error (500) and
\* makes no mutation to the record.
C27_Original ==
    [][\A t \in Threads :
          (Stepped(t) /\ th[t].pc = "att_today" /\ RecordWithoutCheckIn(t))
              => /\ Returns(t, "invalid_state")
                 /\ out'.resp.code = 500
                 /\ teachers' = teachers]_vars

(***************************************************************************)
(* C29                                                                     *)
(***************************************************************************)
\* the step leaves the records of teacher id for all dates but d as they
\* were
OtherDatesUnchanged(id, d) ==
    \A e \in Days \ {d} :
        /\ HasRecordIn(teachers', id, e) <=> HasRecordIn(teachers, id, e)
        /\ HasRecordIn(teachers, id, e)
              => RecordIn(teachers', id, e) = RecordIn(teachers, id, e)

\* the steps of an event on date D of a person: the first event of the
\* date goes on to the check-in and is answered check_in, whatever the
\* other dates hold, and no step changes the record of another date
C29_Step(t) ==
    LET r == th[t]
    IN  /\ OtherDatesUnchanged(r.tid, r.date)
        /\ (r.pc = "att_today" /\ IsEmpty(teachers, r.tid, r.date))
            => Reaches(t, "ci_get")
        /\ (r.pc = "ci_update" /\ IsEmpty(teachers, r.tid, r.date))
            => /\ Returns(t, "check_in")
               /\ RecordIn(teachers', r.tid, r.date) = [check_in |-> r.time]

\* C29 as stated: an attendance event on date D reads and writes only the
\* record of (person, D): the first event on a new date yields check_in
\* whatever state the previous date was left in, and the records of all
\* other dates of the person are unchanged by the event.
C29_Original ==
    [][\A t \in Threads : (Stepped(t) /\ InEvent(t)) => C29_Step(t)]_vars

(***************************************************************************)
(* C30                                                                     *)
(***************************************************************************)
\* the step is a step of a registration request
RegistrationStep == \E t \in Threads : Stepped(t) /\ th[t].req.op = "register"

\* C30 as stated: once a person is created, no later operation changes the
\* person's fingerprint identifier, name or department; attendance events
\* write only the attendance map, and no registration request overwrites
\* an existing person document or its attendance map.
C30_Original ==
    [][\A id \in DOMAIN teachers :
          /\ id \in DOMAIN teachers'
          /\ teachers'[id].fingerprint_id = teachers[id].fingerprint_id
          /\ teachers'[id].name = teachers[id].name
          /\ teachers'[id].department = teachers[id].department
          /\ RegistrationStep => teachers'[id] = teachers[id]]_vars

(***************************************************************************)
(* C31                                                                     *)
(***************************************************************************)
\* the pending slot holding fingerprint identifier fid
Slot(fid) == [set |-> TRUE, fingerprint_id |-> fid]

\* the step in which the polling query answers: at once when it finds the
\* slot empty, else after its second read of the slot
PollAnswers ==
    \/ nreq' # nreq /\ th' = th /\ out'.op = "get_latest_fingerprint"
    \/ \E t \in Threads : th[t].pc = "latest_read" /\ th'[t].pc = "idle"

\* the step in which the explicit clear answers
ClearAnswers ==
    nreq' # nreq /\ th' = th /\ out'.op = "clear_latest_fingerprint"

\* thread t takes a step of a registration that does not succeed in it
RegistrationNotDone(t) ==
    /\ Stepped(t)
    /\ "register" \in {th[t].req.op, th'[t].req.op}
    /\ ~Returns(t, "registered")

C31_Step ==
    /\ \A t \in Threads :
          /\ Returns(t, "fingerprint_stored")
                => latest' = Slot(th[t].req.fp.val)
          /\ Returns(t, "registered") => latest' = NoSlot
          /\ RegistrationNotDone(t) => latest' = latest
    /\ ClearAnswers => latest' = NoSlot
    /\ PollAnswers =>
          /\ latest.set => /\ out'.resp.status = "ready"
                           /\ out'.resp.fp = latest.fingerprint_id
          /\ out'.resp.status = "ready" => latest.set
          /\ latest' = latest
    /\ latest' # latest =>
          \/ ClearAnswers
          \/ \E t \in Threads : \/ Returns(t, "fingerprint_stored")
                                 \/ Returns(t, "registered")

\* C31: the pending slot is one cell, last write wins: the step that accepts
\* a sensor fingerprint event leaves exactly its identifier in the slot; while
\* the slot is set the polling query answers ready with the identifier in it;
\* a successful registration and an explicit clear leave the slot empty; a
\* registration step that does not succeed leaves the slot as it was; and
\* nothing else changes the slot.
C31_SingleSlot == [][C31_Step]_vars

\* C31 witness: the event for fingerprint 1 was accepted and the slot holds 1,
\* while the event for fingerprint 2 is about to replace it
C31_Witness ==
    /\ latest = Slot(1)
    /\ out.op = "register_fingerprint"
    /\ out.resp.outcome = "fingerprint_stored"
    /\ out.resp.fp = 1
    /\ \E t \in Threads : th[t].pc = "rf_store" /\ th[t].req.fp.val = 2

(***************************************************************************)
(* C32                                                                     *)
(***************************************************************************)
\* the outcome a decision stands for when its write succeeds
DecisionOutcome(e) ==
    CASE e.next = "ci_get" -> "check_in"
      [] e.next = "co_get" -> "check_out"
      [] OTHER -> e.resp.outcome

DecisionOutcomes ==
    {"check_in", "cooldown_rejected", "check_out", "already_completed",
     "invalid_state"}

\* seconds from time of day c to time of day t, within 24 hours
SecondsBetween(c, t) == (ParseTime(t) + 86400 - ParseTime(c)) % 86400

\* the decision e is the one the four cases prescribe for record a at time t
AsTheCasesSay(e, a, t) ==
    LET o == DecisionOutcome(e)
        keys == IF a.present THEN DOMAIN a.rec ELSE {}
    IN  /\ o \in DecisionOutcomes
        /\ keys = {}
              => /\ o = "check_in"
                 /\ e.mutation = <<"set", [check_in |-> t]>>
        /\ (keys # {} /\ "check_in" \in keys /\ "check_out" \notin keys)
              => LET s == SecondsBetween(a.rec.check_in, t)
                 IN  IF s \div 60 < COOLDOWN_MINUTES
                     THEN /\ o = "cooldown_rejected"
                          /\ e.mutation = <<"none">>
                     ELSE /\ o = "check_out"
                          /\ e.mutation
                                = <<"set",
                                    [check_in |-> a.rec.check_in,
                                     check_out |-> t,
                                     working_hours |->
                                        <<s \div 3600, (s % 3600) \div 60>>]>>
        /\ {"check_in", "check_out"} \subseteq keys
              => o = "already_completed" /\ e.mutation = <<"none">>
        /\ (keys # {} /\ "check_in" \notin keys)
              => o = "invalid_state" /\ e.mutation = <<"none">>

\* C32: on every record for today (absent or empty, check_in alone,
\* check_in and check_out, anything else) and every time of day the
\* decision is exactly one of check_in, cooldown_rejected, check_out,
\* already_completed and invalid_state, the one its case prescribes, and a
\* second evaluation on the same record and time gives the same outcome,
\* the same answer and the same record to write.
C32_Decision ==
    /\ calc.pc \in {"once", "twice"}
          => AsTheCasesSay(calc.first, calc.today, calc.current_time)
    /\ calc.pc = "twice" => calc.second = calc.first

\* C32 witness: the record {check_in 23:50:00} was decided twice at 00:05:00,
\* both times as the check-out that writes 0 hours 15 minutes
C32_Witness ==
    /\ calc.pc = "twice"
    /\ calc.today.present
    /\ calc.today.rec = [check_in |-> <<23, 50, 0>>]
    /\ calc.current_time = <<0, 5, 0>>
    /\ DecisionOutcome(calc.second) = "check_out"
    /\ calc.second.mutation
          = <<"set", [check_in |-> <<23, 50, 0>>, check_out |-> <<0, 5, 0>>,
                      working_hours |-> <<0, 15>>]>>

(***************************************************************************)
(* C33                                                                     *)
(***************************************************************************)
\* the stored working duration of a record, in minutes
DurationMinutes(rec) == rec.working_hours[1] * 60 + rec.working_hours[2]

\* C33 as stated: every completed record has a working duration of at least
\* the cooldown and below 24 hours, and its check_out is at least the
\* cooldown after its check_in, within 24 hours.
C33_Original ==
    \A id \in DOMAIN teachers : \A d \in DOMAIN teachers[id].attendance :
        IsCompleted(teachers, id, d)
            => LET rec == RecordIn(teachers, id, d)
               IN  /\ DurationMinutes(rec) >= COOLDOWN_MINUTES
                   /\ DurationMinutes(rec) < 24 * 60
                   /\ SecondsBetween(rec.check_in, rec.check_out)
                         >= COOLDOWN_MINUTES * 60

(***************************************************************************)
(* C34                                                                     *)
(***************************************************************************)
\* C34: every rejection for cooldown carries remaining_minutes between 1
\* and the cooldown, both included.
C34_Remaining ==
    (calc.pc = "decided" /\ ScanRejected)
        => /\ calc.resp.remaining >= 1
           /\ calc.resp.remaining <= COOLDOWN_MINUTES

\* C34 witness: the scan 59 seconds after the check-in of 23:50:00 was
\* rejected with the whole cooldown remaining
C34_Witness ==
    /\ calc.pc = "decided"
    /\ calc.check_in = <<23, 50, 0>>
    /\ calc.current_time = <<23, 50, 59>>
    /\ ScanRejected
    /\ calc.resp.remaining = COOLDOWN_MINUTES

(***************************************************************************)
(* C35                                                                     *)
(***************************************************************************)
\* thread t's create_check_in or create_check_out writes the store
WritesRecord(t) ==
    /\ th[t].pc \in {"ci_update", "co_update"}
    /\ Stepped(t)
    /\ teachers' # teachers

\* the instant named by a date key and a time of day
InstantOf(date, time) == [day |-> date, sec |-> ParseTime(time)]

\* C35 as stated: the time of day a handler stores and the date key it
\* stores it under are those of one clock instant, the one at which the
\* handler read the time. That instant is not after the write, so the
\* instant named by the date key and the stored time of day is never
\* after the clock at the moment of the write.
C35_Original ==
    [][\A t \in Threads :
          WritesRecord(t)
          => LET key == th[t].date
                 rec == RecordIn(teachers', th[t].tid, key)
                 stored == IF th[t].pc = "ci_update" THEN rec.check_in
                           ELSE rec.check_out
             IN  /\ stored = th[t].time
                 /\ ~Before(now, InstantOf(key, stored))]_vars

(***************************************************************************)
(* C36                                                                     *)
(***************************************************************************)
\* C36 as stated: the pending slot never holds a fingerprint identifier
\* that is bound to a registered person.
C36_Original ==
    latest.set => WithFingerprint(latest.fingerprint_id) = {}

(***************************************************************************)
(* C37                                                                     *)
(***************************************************************************)
\* thread t's register_teacher writes a person document
WritesPerson(t) ==
    /\ th[t].pc = "reg_set"
    /\ Stepped(t)
    /\ teachers' # teachers

\* C37 as stated: no attendance record is written while the stored mode is
\* 'register', and no person is created while the stored mode is
\* 'attendance', whatever set-mode operation runs between an event's gate
\* and its write.
C37_Original ==
    [][\A t \in Threads :
          /\ WritesRecord(t) => modeDoc # "register"
          /\ WritesPerson(t) => modeDoc # "attendance"]_vars

(***************************************************************************)
(* C38                                                                     *)
(***************************************************************************)
\* the step in which thread t's read of the mode document returns
C38_Step(t) ==
    (th[t].pc = "mode_read" /\ Stepped(t))
    => /\ modeDoc' = modeDoc
       /\ \/ modeDoc = "absent" /\ Reaches(t, "mode_default")
          \/ modeDoc \in Modes /\ DecidedAs(t, modeDoc)
          \/ /\ DecidedAsAttendance(t)
             /\ PastAttendanceGate(t)' => th'[t].mode = "attendance"

\* C38: a read of the mode document either returns what is stored or
\* fails, and when it fails the gate acts as under 'attendance', whatever
\* is stored: a registration event is rejected with the mode conflict
\* (403), an attendance event goes on to the person lookup, and the stored
\* mode is the same after the read.
C38_FailedRead == [][\A t \in Threads : C38_Step(t)]_vars

\* C38 witness: with 'register' stored and no other handler running, an
\* attendance event has passed the gate with mode 'attendance'
C38_Witness ==
    /\ modeDoc = "register"
    /\ \E t \in Threads :
          /\ th[t].pc = "att_lookup"
          /\ th[t].mode = "attendance"
          /\ \A u \in Threads \ {t} : th[u].pc = "idle"

====
